---- MODULE Spec2Model ----
(***************************************************************************)
(* Reminder conversation engine and reminder lifecycle manager.            *)
(*                                                                         *)
(*   conversation-flow.ts  the message handler: sessions, drafts, states   *)
(*   reminders.ts          saveReminder / scheduleReminder /               *)
(*                         startScheduling / deleteReminderById            *)
(*   index.ts              the 'ready' handler that resumes on startup     *)
(*                                                                         *)
(* Time is a discrete clock of instants.  Date.now() is `clock`; the id    *)
(* of a reminder is the clock reading at its confirmation (rem-<now>).     *)
(* A validade is a canonical date string; ValidadeDay gives the index of   *)
(* its day, and 09:00 of day d is instant d * TicksPerDay.                 *)
(* An optional field of a draft or of an extraction result is a field the  *)
(* record does not have (null / undefined in the source).                  *)
(***************************************************************************)
EXTENDS Integers, FiniteSets, Sequences, Bags, TLC

\* ------------------------------------------------------------------ bounds
MaxClock == 2
TicksPerDay == 1
MaxCommits == 2
MaxDays == 3650
MaxPending == 2
MaxSaves == 3
MaxReadies == 2

Chats == {"c1"}
Ids == 0..MaxClock

\* ISO dates the extractors can return, and the index of each one's day.
\* "2026-02-30" has the shape of a date and names none: the Date constructor
\* of V8 carries its day over into March, to 2 March 2026.
ValidadeDay == ("2026-01-10" :> 1) @@ ("2026-01-11" :> 2) @@ ("2026-02-30" :> 52)
Validades == {"2026-01-10", "2026-01-11"}

\* Product names as the extractor returns them (already past productoIsInvalid).
RawProdutos == {"leite"}

\* diasAntes as the text extractor may return it: any number, no range check.
ParsedDias == {0, 1}

\* Message bodies, already trimmed (message.body || "").trim().
Texts == {"", "cancelar", "nao", "sim", "0", "-1", "3651", "Leite vence 10/01/2026"}

\* ----------------------------------------------------- pure text helpers

\* A cancel pattern that matches nothing.
IsCancelarNever(text) == text \in {}

\* /^cancelar$/i
IsCancelar(text) == text \in {"cancelar"}

\* /^(não|nao|cancel(ar)?)$/i
IsNegative(text) == text \in {"não", "nao", "cancel", "cancelar"}

\* /^sim$/i
IsSim(text) == text \in {"sim"}

\* A pattern for the bare number that matches nothing.
NumMatchNever(text) == text \in {}

\* text.match(/^\s*"?(-?\d+)"?\s*$/) and Number(numMatch[1]) on the bodies above.
NumLit == ("0" :> 0) @@ ("-1" :> -1) @@ ("3651" :> 3651)
NumMatch(text) == text \in DOMAIN NumLit

\* prompt.trim().length < 2
IsShort(text) == text \in {"", "0"}

\* /^\s*(sim|s|ok|okay|yes|no|não|nao|cancelar)\s*$/i
IsTrivial(text) == text \in {"sim", "ok", "nao", "não", "cancelar"}

\* p.trim(); p.charAt(0).toUpperCase() + p.slice(1)
CapitalizeTrimmed == ("leite" :> "Leite")

Has(rec, f) == f \in DOMAIN rec
Put(rec, f, v) == (f :> v) @@ rec
Without(rec, f) == [g \in (DOMAIN rec) \ {f} |-> rec[g]]

\* ------------------------------------------------- calendar arithmetic

\* ECMAScript day arithmetic, in local time: DaysInYear, DayFromYear, MakeDay,
\* YearFromTime, MonthFromTime, DateFromTime (months counted from 1 here).
InLeapYear(y) == y % 4 = 0 /\ (y % 100 # 0 \/ y % 400 = 0)

DayFromYear(y) ==
    365 * (y - 1970) + ((y - 1969) \div 4) - ((y - 1901) \div 100) + ((y - 1601) \div 400)

MonthDays(y) ==
    <<31, IF InLeapYear(y) THEN 29 ELSE 28, 31, 30, 31, 30, 31, 31, 30, 31, 30, 31>>

RECURSIVE DaysBeforeMonth(_, _)
DaysBeforeMonth(y, m) ==
    IF m = 1 THEN 0 ELSE DaysBeforeMonth(y, m - 1) + MonthDays(y)[m - 1]

\* MakeDay(year, month, date): the date may be zero or negative.
MakeDay(y, m, dt) == DayFromYear(y) + DaysBeforeMonth(y, m) + dt - 1

Years == 1985..2101

YearFromTime(day) == CHOOSE y \in Years : DayFromYear(y) <= day /\ day < DayFromYear(y + 1)

MonthFromTime(day) ==
    LET y == YearFromTime(day)
        within == day - DayFromYear(y)
    IN CHOOSE m \in 1..12 :
          DaysBeforeMonth(y, m) <= within /\ within < DaysBeforeMonth(y, m) + MonthDays(y)[m]

DateFromTime(day) ==
    LET y == YearFromTime(day)
    IN day - DayFromYear(y) - DaysBeforeMonth(y, MonthFromTime(day)) + 1

\* ------------------------------------------- the normalizers of dates

\* Strings are read character by character. s.slice(from - 1, to), clamped to
\* the string, and s[i] ("" outside the string).
Slice(s, from, to) ==
    LET a == IF from < 1 THEN 1 ELSE from
        b == IF to > Len(s) THEN Len(s) ELSE to
    IN IF a > b THEN "" ELSE SubSeq(s, a, b)

At(s, i) == Slice(s, i, i)

Digit == {"0", "1", "2", "3", "4", "5", "6", "7", "8", "9"}
DigitValue ==
    ("0" :> 0) @@ ("1" :> 1) @@ ("2" :> 2) @@ ("3" :> 3) @@ ("4" :> 4) @@
    ("5" :> 5) @@ ("6" :> 6) @@ ("7" :> 7) @@ ("8" :> 8) @@ ("9" :> 9)

\* \d{lo,hi} over the whole of s.
IsDigits(s, lo, hi) ==
    /\ Len(s) >= lo
    /\ Len(s) <= hi
    /\ \A i \in 1..Len(s) : At(s, i) \in Digit

HasDigit(s) == \E i \in 1..Len(s) : At(s, i) \in Digit

\* Number(s) for a string of digits.
RECURSIVE Number(_)
Number(s) ==
    IF s = "" THEN 0
    ELSE 10 * Number(Slice(s, 1, Len(s) - 1)) + DigitValue[At(s, Len(s))]

\* String.prototype.trim, on blanks.
RECURSIVE TrimStart(_)
TrimStart(s) == IF At(s, 1) = " " THEN TrimStart(Tail(s)) ELSE s

RECURSIVE TrimEnd(_)
TrimEnd(s) ==
    IF At(s, Len(s)) = " " THEN TrimEnd(Slice(s, 1, Len(s) - 1)) ELSE s

Trim(s) == TrimEnd(TrimStart(s))

\* toLowerCase and the removal of the accents (normalize("NFD") without the
\* combining marks), character by character.
UpperToLower ==
    ("A" :> "a") @@ ("B" :> "b") @@ ("C" :> "c") @@ ("D" :> "d") @@ ("E" :> "e") @@ ("F" :> "f") @@ ("G" :> "g") @@
    ("H" :> "h") @@ ("I" :> "i") @@ ("J" :> "j") @@ ("K" :> "k") @@ ("L" :> "l") @@ ("M" :> "m") @@ ("N" :> "n") @@
    ("O" :> "o") @@ ("P" :> "p") @@ ("Q" :> "q") @@ ("R" :> "r") @@ ("S" :> "s") @@ ("T" :> "t") @@ ("U" :> "u") @@
    ("V" :> "v") @@ ("W" :> "w") @@ ("X" :> "x") @@ ("Y" :> "y") @@ ("Z" :> "z")

Unaccented == ("ç" :> "c") @@ ("Ç" :> "C") @@ ("é" :> "e") @@ ("ã" :> "a")

LowerChar(ch) == IF ch \in DOMAIN UpperToLower THEN UpperToLower[ch] ELSE ch
PlainChar(ch) == IF ch \in DOMAIN Unaccented THEN Unaccented[ch] ELSE ch

RECURSIVE MapChars(_, _)
MapChars(s, lower) ==
    IF s = "" THEN ""
    ELSE (IF lower THEN LowerChar(Head(s)) ELSE PlainChar(Head(s))) \o MapChars(Tail(s), lower)

toLowerCase(s) == MapChars(s, TRUE)
StripAccents(s) == MapChars(s, FALSE)

\* s.split(sep) for a one-character separator: the pieces between its
\* occurrences.
RECURSIVE Split(_, _)
Split(s, sep) ==
    IF \A i \in 1..Len(s) : At(s, i) # sep THEN <<s>>
    ELSE LET i == CHOOSE k \in 1..Len(s) :
                     At(s, k) = sep /\ \A j \in 1..(k - 1) : At(s, j) # sep
         IN <<Slice(s, 1, i - 1)>> \o Split(Slice(s, i + 1, Len(s)), sep)

\* The value null of a string | null result.
Null == "(null)"

\* String(n).padStart(2, "0")
pad(n) == IF n < 10 THEN "0" \o ToString(n) ELSE ToString(n)

\* `${y}-${pad(mon)}-${pad(d)}`
FormatIso(y, mon, d) == ToString(y) \o "-" \o pad(mon) \o "-" \o pad(d)

isLeap(y) == (y % 4 = 0 /\ y % 100 # 0) \/ y % 400 = 0

isValidDateParts(y, mon, d) ==
    IF mon < 1 \/ mon > 12 \/ d < 1 THEN FALSE
    ELSE LET mdays == <<31, IF isLeap(y) THEN 29 ELSE 28, 31, 30, 31, 30, 31, 31, 30, 31,
                        30, 31>>
         IN d <= mdays[mon]

\* new Date(year, monthIndex, day) as the number of its day: MakeDay carries a
\* month index outside 0..11 into the year and a day outside the month on.
DateOf(year, monthIndex, day) ==
    MakeDay(year + (monthIndex \div 12), (monthIndex % 12) + 1, day)

\* if (isValidDateParts(y, mon, d)) return `${y}-${pad(mon)}-${pad(d)}`; return null
ValidOrNull(y, mon, d) == IF isValidDateParts(y, mon, d) THEN FormatIso(y, mon, d) ELSE Null

\* inferYearThenFormat, with nowInSaoPaulo() read as today = <<year, month, day>>:
\* the year moves on when the candidate Date is before today's.
inferYearThenFormat(day, month, today) ==
    ValidOrNull(IF DateOf(today[1], month - 1, day) < DateOf(today[1], today[2] - 1, today[3])
                THEN today[1] + 1 ELSE today[1],
                month, day)

\* The table `months` of normalizeDate.
months ==
    ("janeiro" :> 1) @@ ("jan" :> 1) @@ ("fevereiro" :> 2) @@ ("fev" :> 2) @@ ("marco" :> 3) @@
    ("março" :> 3) @@ ("mar" :> 3) @@ ("abril" :> 4) @@ ("abr" :> 4) @@ ("maio" :> 5) @@
    ("mai" :> 5) @@ ("junho" :> 6) @@ ("jun" :> 6) @@ ("julho" :> 7) @@ ("jul" :> 7) @@
    ("agosto" :> 8) @@ ("ago" :> 8) @@ ("setembro" :> 9) @@ ("set" :> 9) @@ ("outubro" :> 10) @@
    ("out" :> 10) @@ ("novembro" :> 11) @@ ("nov" :> 11) @@ ("dezembro" :> 12) @@ ("dez" :> 12)

Lookup(table, key) == IF key \in DOMAIN table THEN table[key] ELSE 0

\* months[w] ?? months[w.slice(0, 3)], then the same on the first word; 0 for
\* undefined.
MonthOfWord(w) ==
    LET short == Slice(w, 1, IF Len(w) < 3 THEN Len(w) ELSE 3)
        first == Split(w, " ")[1]
        direct == IF w \in DOMAIN months THEN months[w] ELSE Lookup(months, short)
    IN IF direct # 0 THEN direct
       ELSE IF first \in DOMAIN months THEN months[first] ELSE Lookup(months, short)

\* /^\s*(\d{1,2})(?:\s*de\s*|\s+)([^\d]+?)(?:\s+(\d{4}))?\s*$/i on a trimmed
\* string: the day, the month word (group 2) and the year ("" if absent), or
\* no match. The pattern is followed from left to right: the day, the year at
\* the end if there is one, then what lies between. The first alternative is
\* tried first, so a "de" right after the day is taken as the preposition.
NoMatch == [matched |-> FALSE]

PhraseWord(day, body, afterBlanks, year) ==
    IF toLowerCase(Slice(afterBlanks, 1, 2)) = "de"
       /\ Trim(Slice(afterBlanks, 3, Len(afterBlanks))) # ""
    THEN [matched |-> TRUE, day |-> day, year |-> year,
          word |-> Trim(Slice(afterBlanks, 3, Len(afterBlanks)))]
    ELSE IF At(body, 1) = " " /\ Trim(body) # ""
    THEN [matched |-> TRUE, day |-> day, year |-> year, word |-> Trim(body)]
    ELSE NoMatch

PhraseBody(day, body, year) ==
    IF body = "" \/ HasDigit(body) THEN NoMatch
    ELSE PhraseWord(day, body, TrimStart(body), year)

EndsWithYear(rest) ==
    /\ Len(rest) >= 5
    /\ IsDigits(Slice(rest, Len(rest) - 3, Len(rest)), 4, 4)
    /\ At(rest, Len(rest) - 4) = " "

PhraseRest(day, rest) ==
    IF EndsWithYear(rest)
    THEN PhraseBody(day, Slice(rest, 1, Len(rest) - 4), Slice(rest, Len(rest) - 3, Len(rest)))
    ELSE PhraseBody(day, rest, "")

MonthPhrase(t) ==
    IF IsDigits(Slice(t, 1, 2), 2, 2) THEN PhraseRest(Slice(t, 1, 2), Slice(t, 3, Len(t)))
    ELSE IF IsDigits(Slice(t, 1, 1), 1, 1) THEN PhraseRest(Slice(t, 1, 1), Slice(t, 2, Len(t)))
    ELSE NoMatch

\* The end of normalizeDate: the month phrase, its month looked up and its
\* year taken from the text or inferred.
PhraseDate(d, mon, yearFromText, today) ==
    IF mon = 0 THEN Null
    ELSE IF yearFromText # 0 THEN ValidOrNull(yearFromText, mon, d)
    ELSE inferYearThenFormat(d, mon, today)

FromPhrase(mt, today) ==
    IF ~mt.matched THEN Null
    ELSE PhraseDate(Number(mt.day),
                    MonthOfWord(Trim(StripAccents(toLowerCase(mt.word)))),
                    IF mt.year = "" THEN 0 ELSE Number(mt.year),
                    today)

\* The numeric patterns of normalizeDate on the trimmed input t, in their
\* order: dash holds the pieces of t between dashes, slash those between slashes.
FromPieces(t, dash, slash, today) ==
    IF Len(dash) = 3 /\ IsDigits(dash[1], 4, 4) /\ IsDigits(dash[2], 2, 2)
                     /\ IsDigits(dash[3], 2, 2)
    THEN t
    ELSE IF Len(slash) = 3 /\ IsDigits(slash[1], 1, 2) /\ IsDigits(slash[2], 1, 2)
                           /\ IsDigits(slash[3], 4, 4)
    THEN ValidOrNull(Number(slash[3]), Number(slash[2]), Number(slash[1]))
    ELSE IF Len(slash) = 3 /\ IsDigits(slash[1], 1, 2) /\ IsDigits(slash[2], 1, 2)
                           /\ IsDigits(slash[3], 2, 2)
    THEN ValidOrNull(2000 + Number(slash[3]), Number(slash[2]), Number(slash[1]))
    ELSE IF Len(slash) = 2 /\ IsDigits(slash[1], 1, 2) /\ IsDigits(slash[2], 1, 2)
    THEN inferYearThenFormat(Number(slash[1]), Number(slash[2]), today)
    ELSE FromPhrase(MonthPhrase(t), today)

FromTrimmed(t, today) == FromPieces(t, Split(t, "-"), Split(t, "/"), today)

\* normalizeDate of the text extractor; today is the reading of nowInSaoPaulo().
normalizeDate(input, today) ==
    IF input = Null \/ input = "" THEN Null
    ELSE FromTrimmed(Trim(input), today)

\* \w of a regular expression, and the letters of [A-Za-zçÇ].
LowerLetters ==
    {"a", "b", "c", "d", "e", "f", "g", "h", "i", "j", "k", "l", "m", "n", "o", "p", "q",
     "r", "s", "t", "u", "v", "w", "x", "y", "z"}
IsWordChar(ch) == ch \in Digit \cup LowerLetters \cup DOMAIN UpperToLower \cup {"_"}
IsNameChar(ch) == ch \in LowerLetters \cup DOMAIN UpperToLower \cup {"ç", "Ç"}

\* The number of digits, or of letters, that stand in a row from position i.
RECURSIVE RunLen(_, _)
RunLen(t, i) == IF At(t, i) \in Digit THEN 1 + RunLen(t, i + 1) ELSE 0

RECURSIVE NameLen(_, _)
NameLen(t, i) == IF IsNameChar(At(t, i)) THEN 1 + NameLen(t, i + 1) ELSE 0

\* \b before a digit at i, and \b after a digit at e.
NumberStarts(t, i) == At(t, i) \in Digit /\ ~IsWordChar(At(t, i - 1))
NumberEnds(t, e) == ~IsWordChar(At(t, e + 1))

\* text.replace(/\s+/g, " "): every run of blanks becomes one blank.
RECURSIVE Collapse(_)
Collapse(s) ==
    IF s = "" THEN ""
    ELSE IF At(s, 1) = " " /\ At(s, 2) = " " THEN Collapse(Tail(s))
    ELSE Head(s) \o Collapse(Tail(s))

DateSeparators == {"/", "-", "."}

\* Three numbers with separators between them from position i, the lengths
\* of the numbers within first, second and third: the three strings, or <<>>.
ThreeNumbersAt(t, i, first, second, third) ==
    LET a == RunLen(t, i)
        b == RunLen(t, i + a + 1)
        c == RunLen(t, i + a + b + 2)
        e == i + a + b + c + 1
    IN IF /\ NumberStarts(t, i)
          /\ a \in first /\ At(t, i + a) \in DateSeparators
          /\ b \in second /\ At(t, i + a + b + 1) \in DateSeparators
          /\ c \in third /\ NumberEnds(t, e)
       THEN <<Slice(t, i, i + a - 1), Slice(t, i + a + 1, i + a + b),
              Slice(t, i + a + b + 2, e)>>
       ELSE <<>>

\* /\b(\d{1,2})[\/](\d{2,4})\b/ from position i.
MonthYearAt(t, i) ==
    LET a == RunLen(t, i)
        b == RunLen(t, i + a + 1)
    IN IF /\ NumberStarts(t, i)
          /\ a \in 1..2 /\ At(t, i + a) = "/"
          /\ b \in 2..4 /\ NumberEnds(t, i + a + b)
       THEN <<Slice(t, i, i + a - 1), Slice(t, i + a + 1, i + a + b)>>
       ELSE <<>>

\* /\b(\d{1,2})\s+([A-Za-zçÇ]+)\s+(\d{4})\b/ from position i, the blanks
\* already collapsed.
DayNameYearAt(t, i) ==
    LET a == RunLen(t, i)
        w == NameLen(t, i + a + 1)
        y == RunLen(t, i + a + w + 2)
    IN IF /\ NumberStarts(t, i)
          /\ a \in 1..2 /\ At(t, i + a) = " "
          /\ w >= 1 /\ At(t, i + a + w + 1) = " "
          /\ y = 4 /\ NumberEnds(t, i + a + w + 5)
       THEN <<Slice(t, i, i + a - 1), Slice(t, i + a + 1, i + a + w),
              Slice(t, i + a + w + 2, i + a + w + 5)>>
       ELSE <<>>

\* String.prototype.match without the g flag: of the matches from each
\* position of the text, the leftmost one, <<>> if there is none.
FirstMatch(hits) ==
    IF \A i \in DOMAIN hits : hits[i] = <<>> THEN <<>>
    ELSE hits[CHOOSE i \in DOMAIN hits :
                 hits[i] # <<>> /\ \A j \in 1..(i - 1) : hits[j] = <<>>]

DayFirstAt(t, i) == ThreeNumbersAt(t, i, 1..2, 1..2, 2..4)
YearFirstAt(t, i) == ThreeNumbersAt(t, i, {4}, 1..2, 1..2)

\* toISOIfValid: the date has to come back from Date.UTC as it went in (a
\* year below 100 comes back as 1900 + year).
toISOIfValid(year, month, day) ==
    IF year = 0 \/ month = 0 \/ day = 0 THEN Null
    ELSE IF month < 1 \/ month > 12 THEN Null
    ELSE IF day < 1 \/ day > 31 THEN Null
    ELSE IF year < 100 THEN Null
    ELSE LET dt == DateOf(year, month - 1, day)
         IN IF YearFromTime(dt) = year /\ MonthFromTime(dt) = month /\ DateFromTime(dt) = day
            THEN ToString(year) \o "-" \o pad(month) \o "-" \o pad(day)
            ELSE Null

\* The table monthsMap of extractDateFromText.
monthsMap ==
    ("jan" :> 1) @@ ("feb" :> 2) @@ ("mar" :> 3) @@ ("apr" :> 4) @@ ("may" :> 5) @@
    ("jun" :> 6) @@ ("jul" :> 7) @@ ("aug" :> 8) @@ ("sep" :> 9) @@ ("oct" :> 10) @@
    ("nov" :> 11) @@ ("dec" :> 12) @@
    ("janeiro" :> 1) @@ ("fevereiro" :> 2) @@ ("março" :> 3) @@ ("abril" :> 4) @@
    ("maio" :> 5) @@ ("junho" :> 6) @@ ("julho" :> 7) @@ ("agosto" :> 8) @@
    ("setembro" :> 9) @@ ("outubro" :> 10) @@ ("novembro" :> 11) @@ ("dezembro" :> 12)

\* extractDateFromText of the image extractor: the patterns in the order of
\* the source; a pattern that matches but gives no valid date lets the next
\* one try, except month/year, which returns what it computes.
extractDateFromText(text) ==
    IF text = Null \/ text = "" THEN Null
    ELSE
    LET t == Trim(Collapse(text))
        m1 == FirstMatch([i \in 1..Len(t) |-> DayFirstAt(t, i)])
        iso1 == IF m1 = <<>> THEN Null
                ELSE toISOIfValid(IF Number(m1[3]) < 100 THEN Number(m1[3]) + 2000
                                  ELSE Number(m1[3]),
                                  Number(m1[2]), Number(m1[1]))
        m2 == FirstMatch([i \in 1..Len(t) |-> MonthYearAt(t, i)])
        isMonth == m2 # <<>> /\ Number(m2[1]) >= 1 /\ Number(m2[1]) <= 12
        m3 == FirstMatch([i \in 1..Len(t) |-> YearFirstAt(t, i)])
        iso3 == IF m3 = <<>> THEN Null
                ELSE toISOIfValid(Number(m3[1]), Number(m3[2]), Number(m3[3]))
        m4 == FirstMatch([i \in 1..Len(t) |-> DayNameYearAt(t, i)])
        month4 == IF m4 = <<>> THEN 0
                  ELSE LET monthRaw == toLowerCase(m4[2])
                       IN IF Slice(monthRaw, 1, 3) \in DOMAIN monthsMap
                          THEN monthsMap[Slice(monthRaw, 1, 3)]
                          ELSE Lookup(monthsMap, monthRaw)
    IN
    IF iso1 # Null THEN iso1
    ELSE IF isMonth
    THEN LET year == IF Number(m2[2]) < 100 THEN 2000 + Number(m2[2]) ELSE Number(m2[2])
             month == Number(m2[1])
             lastDay == DateFromTime(DateOf(year, month, 0))
         IN toISOIfValid(year, month, lastDay)
    ELSE IF iso3 # Null THEN iso3
    ELSE IF month4 # 0 THEN toISOIfValid(Number(m4[3]), month4, Number(m4[1]))
    ELSE Null

\* ------------------------------------------------------------- extraction

DraftFields == {"produto", "validade", "diasAntes"}

\* The record with no field: a draft {} or an extraction with every field null.
Empty == [f \in {} |-> f]

Optional(f, S) == {Empty} \cup { (f :> v) : v \in S }

\* What parseAndNormalizeJson can return when it does not return null: at least
\* one of the three fields is set.
ParsedReminders ==
    { p @@ v @@ d : p \in Optional("produto", RawProdutos),
                    v \in Optional("validade", Validades),
                    d \in Optional("diasAntes", ParsedDias) } \ {Empty}

\* The day on which the dialogue takes place (nowInSaoPaulo).
Today == <<2026, 1, 5>>

\* A message body that names a day that does not exist and lead times outside
\* the range, and the JSON objects the language model may answer it with: each
\* field null (absent here) or copied as the model read it.
LooseTexts == {"Leite vence 2026-02-30, avisar -1 dias antes"}

ModelReplies ==
    { p @@ v @@ d : p \in Optional("produto", RawProdutos),
                    v \in Optional("validade", {"2026-02-30", "31/02/2026"}),
                    d \in Optional("diasAntes", {-1, 3651}) }

\* parseAndNormalizeJson on the parsed JSON object: the product as it is, the
\* validade through normalizeDate, diasAntes through Number(); null when all
\* three are null.
Answer(value) ==
    IF value = Empty THEN [kind |-> "null", value |-> Empty]
    ELSE [kind |-> "ok", value |-> value]

Normalized(parsed, validadeNorm) ==
    Answer((IF Has(parsed, "produto") THEN Put(Empty, "produto", parsed.produto) ELSE Empty)
           @@ (IF validadeNorm # Null THEN Put(Empty, "validade", validadeNorm) ELSE Empty)
           @@ (IF Has(parsed, "diasAntes") THEN Put(Empty, "diasAntes", parsed.diasAntes)
               ELSE Empty))

parseAndNormalizeJson(parsed, today) ==
    Normalized(parsed, IF Has(parsed, "validade") THEN normalizeDate(parsed.validade, today)
                       ELSE Null)

\* What parseAndNormalizeJson makes of those replies.
LooseAnswers == { parseAndNormalizeJson(parsed, Today) : parsed \in ModelReplies }

\* The outcomes of `await requestParsingBot(text)`: null for a short or trivial
\* prompt; otherwise null, a record, or a rejection.
requestParsingBot(text) ==
    IF IsShort(text) \/ IsTrivial(text)
    THEN { [kind |-> "null", value |-> Empty] }
    ELSE { [kind |-> "null", value |-> Empty], [kind |-> "throw", value |-> Empty] }
         \cup IF text \in LooseTexts
              THEN LooseAnswers
              ELSE { [kind |-> "ok", value |-> p] : p \in ParsedReminders }

\* The outcomes of downloadMedia + getValidadeFromImageAI.
ImageOutcomes ==
    { [kind |-> "downloadThrows", validade |-> ""],
      [kind |-> "noData", validade |-> ""],
      [kind |-> "null", validade |-> ""] }
    \cup { [kind |-> "ok", validade |-> v] : v \in Validades }

\* ------------------------------------------------------------------ state

VARIABLES
    clock,          \* Date.now(), in instants
    phase,          \* "booting" until the 'ready' handler ran, then "running"
    sessions,       \* the Map chatId -> Session of conversation-flow.ts
    collection,     \* the persisted reminder records (unique index on id)
    armed,          \* the bag of jobs whose timer is pending
    scheduledJobs,  \* node-schedule's registry: job name -> job
    sendCount,      \* history: how often the sender was invoked per reminder id
    commits,        \* history: confirmations that built a reminder
    skipped,        \* history: reminders handed to scheduleReminder when already due
    pending,        \* the handlers suspended at `await requestParsingBot`, in arrival order
    probe,          \* the pure computation under check: its input and its result
    boot,           \* index.ts schedulerStarted, conversation-flow.ts _conversationAttached,
                    \* the "message" listeners and the progress of the startup resume
    last            \* history: the step just taken and the inputs it consumed

vars == <<clock, phase, sessions, collection, armed, scheduledJobs,
          sendCount, commits, skipped, pending, probe, boot, last>>

NoStep(op) ==
    [op |-> op, chat |-> "", text |-> "", pre |-> "NONE", parsed |-> Empty,
     rem |-> Empty, calls |-> {}, ids |-> {}]

\* A process that has seen no 'ready' event: `let schedulerStarted = false`,
\* `let _conversationAttached = false`, no listener for "message"; starts
\* counts the invocations of startScheduling, resuming says one is awaited,
\* resumed that one has settled, readies counts the 'ready' events.
NotBooted ==
    [schedulerStarted |-> FALSE, conversationAttached |-> FALSE, handlers |-> 0,
     starts |-> 0, resuming |-> FALSE, resumed |-> FALSE, readies |-> 0]

Init ==
    /\ clock = 0
    /\ phase = "booting"
    /\ sessions = Empty
    /\ collection = {}
    /\ armed = EmptyBag
    /\ scheduledJobs = Empty
    /\ sendCount = [i \in Ids |-> 0]
    /\ commits = 0
    /\ skipped = {}
    /\ pending = <<>>
    /\ probe = Empty
    /\ boot = NotBooted
    /\ last = NoStep("init")

\* ------------------------------------------------- conversation-flow.ts

\* !x for a string field of the draft: null, undefined or "".
Falsy(rec, f) == ~Has(rec, f) \/ rec[f] = ""

\* formatDateBR: YYYY-MM-DD -> DD/MM/YYYY on the dates above.
formatDateBR ==
    ("2026-01-10" :> "10/01/2026") @@ ("2026-01-11" :> "11/01/2026") @@
    ("2026-02-30" :> "30/02/2026")

\* getNextPrompt that asks for confirmation as soon as date and lead time are set.
getNextPromptNoProduct(session) ==
    LET draft == session.draft IN
    IF Falsy(draft, "validade")
    THEN [state |-> "WAIT_IMAGE", message |-> <<"WAIT_IMAGE">>]
    ELSE IF ~Has(draft, "diasAntes")
    THEN [state |-> "WAIT_DAYS", message |-> <<"WAIT_DAYS">>]
    ELSE [state |-> "CONFIRM",
          message |-> <<"CONFIRM", formatDateBR[draft.validade], draft.diasAntes>>]

\* getNextPrompt that tests diasAntes for truthiness, so that 0 counts as absent.
getNextPromptZeroAbsent(session) ==
    LET draft == session.draft IN
    IF Falsy(draft, "validade")
    THEN [state |-> "WAIT_IMAGE", message |-> <<"WAIT_IMAGE">>]
    ELSE IF ~Has(draft, "diasAntes") \/ draft.diasAntes = 0
    THEN [state |-> "WAIT_DAYS", message |-> <<"WAIT_DAYS">>]
    ELSE IF Falsy(draft, "produto")
    THEN [state |-> "WAIT_PRODUCT", message |-> <<"WAIT_PRODUCT">>]
    ELSE [state |-> "CONFIRM",
          message |-> <<"CONFIRM", draft.produto, formatDateBR[draft.validade],
                        draft.diasAntes>>]

\* The next state and the prompt, from what the draft still lacks.
getNextPrompt(session) ==
    LET draft == session.draft IN
    IF Falsy(draft, "validade")
    THEN [state |-> "WAIT_IMAGE", message |-> <<"WAIT_IMAGE">>]
    ELSE IF ~Has(draft, "diasAntes")
    THEN [state |-> "WAIT_DAYS", message |-> <<"WAIT_DAYS">>]
    ELSE IF Falsy(draft, "produto")
    THEN [state |-> "WAIT_PRODUCT", message |-> <<"WAIT_PRODUCT">>]
    ELSE [state |-> "CONFIRM",
          message |-> <<"CONFIRM", draft.produto, formatDateBR[draft.validade],
                        draft.diasAntes>>]

\* session.state = getNextPrompt(session).state
Recompute(session) == [session EXCEPT !.state = getNextPrompt(session).state]

\* A merge that replaces the draft by the extraction's fields.
mergeReplacingDraft(session, parsed) ==
    IF parsed.kind # "ok" THEN session
    ELSE
    LET p == parsed.value
        d1 == IF Has(p, "produto") THEN Put(Empty, "produto", CapitalizeTrimmed[p.produto])
              ELSE Empty
        d2 == IF Has(p, "validade") THEN Put(d1, "validade", p.validade) ELSE d1
        d3 == IF Has(p, "diasAntes") THEN Put(d2, "diasAntes", p.diasAntes) ELSE d2
    IN [session EXCEPT !.draft = d3]

\* Copies every non-null field of the extraction into the draft.
mergeParsedIntoDraft(session, parsed) ==
    IF parsed.kind # "ok" THEN session
    ELSE
    LET p == parsed.value
        d0 == session.draft
        d1 == IF Has(p, "produto") THEN Put(d0, "produto", CapitalizeTrimmed[p.produto])
              ELSE d0
        d2 == IF Has(p, "validade") THEN Put(d1, "validade", p.validade) ELSE d1
        d3 == IF Has(p, "diasAntes") THEN Put(d2, "diasAntes", p.diasAntes) ELSE d2
    IN [session EXCEPT !.draft = d3]

\* -------------------------------------------------------- reminders.ts

\* new Date(`${validade}T09:00:00`)
parseValidadeAtNine(validade) == ValidadeDay[validade] * TicksPerDay

\* notifyDate.setDate(validadeDate.getDate() - diasAntes)
calcNotifyDate(validade, diasAntes) ==
    parseValidadeAtNine(validade) - diasAntes * TicksPerDay

\* The data of a reminder, whichever object carries it (the one the handler built
\* or the stored record, which may hold sentAt).
Key(r) == [id |-> r.id, chatId |-> r.chatId, produto |-> r.produto,
           validade |-> r.validade, diasAntes |-> r.diasAntes]

\* The fields of the Reminder type that a caller has to supply.
RequiredFields == {"id", "chatId", "produto", "validade", "diasAntes"}

WellFormed(r) == RequiredFields \subseteq DOMAIN r

\* fireAt <= now for this reminder.
Due(r, now) == calcNotifyDate(r.validade, r.diasAntes) <= now

\* node-schedule Job.cancel(): the pending invocation is dropped and the job
\* leaves the registry.
CancelJob(ts, job) ==
    [armed |-> ts.armed (-) SetToBag({job}),
     scheduledJobs |-> Without(ts.scheduledJobs, job.name)]

\* scheduleReminder that does not look for a job already registered under the id.
scheduleReminderNoCancel(ts, reminder, now) ==
    LET notifyDate == calcNotifyDate(reminder.validade, reminder.diasAntes) IN
    IF notifyDate <= now
    THEN ts
    ELSE LET job == [name |-> reminder.id, at |-> notifyDate, rem |-> reminder]
         IN [armed |-> ts.armed (+) SetToBag({job}),
             scheduledJobs |-> Put(ts.scheduledJobs, reminder.id, job)]

\* scheduleReminder that returns early only when notifyDate < now.
scheduleReminderStrict(ts, reminder, now) ==
    LET notifyDate == calcNotifyDate(reminder.validade, reminder.diasAntes) IN
    IF notifyDate < now
    THEN ts
    ELSE LET cleared == IF Has(ts.scheduledJobs, reminder.id)
                        THEN CancelJob(ts, ts.scheduledJobs[reminder.id])
                        ELSE ts
             job == [name |-> reminder.id, at |-> notifyDate, rem |-> reminder]
         IN [armed |-> cleared.armed (+) SetToBag({job}),
             scheduledJobs |-> Put(cleared.scheduledJobs, reminder.id, job)]

\* calcNotifyDate yields a date: without validade or diasAntes it yields an
\* Invalid Date, which compares false with every date and never fires.
ValidDate(reminder) == Has(reminder, "validade") /\ Has(reminder, "diasAntes")

\* scheduleReminder on the timer state ts = [armed, scheduledJobs] at instant now.
scheduleReminder(ts, reminder, now) ==
    IF ValidDate(reminder) /\ calcNotifyDate(reminder.validade, reminder.diasAntes) <= now
    THEN ts
    ELSE LET cleared == IF Has(ts.scheduledJobs, reminder.id)
                        THEN CancelJob(ts, ts.scheduledJobs[reminder.id])
                        ELSE ts
         IN IF ~ValidDate(reminder)
            THEN cleared
            ELSE LET job == [name |-> reminder.id,
                             at |-> calcNotifyDate(reminder.validade, reminder.diasAntes),
                             rem |-> reminder]
                 IN [armed |-> cleared.armed (+) SetToBag({job}),
                     scheduledJobs |-> Put(cleared.scheduledJobs, reminder.id, job)]

\* saveReminder that rethrows the duplicate-id error instead of absorbing it.
saveReminderRethrowing(coll, ts, reminder, now, insert) ==
    IF insert = "fails" \/ \E rec \in coll : rec.id = reminder.id
    THEN [threw |-> TRUE, collection |-> coll, timers |-> ts]
    ELSE LET stamped == IF Has(reminder, "createdAt") THEN reminder
                        ELSE Put(reminder, "createdAt", now)
         IN [threw |-> FALSE, collection |-> coll \cup {stamped},
             timers |-> scheduleReminder(ts, stamped, now)]

\* saveReminder: createdAt is filled in if absent, then insertOne (a duplicate
\* id, error 11000, is absorbed; any other failure is rethrown), then
\* scheduleReminder.
saveReminder(coll, ts, reminder, now, insert) ==
    LET stamped == IF Has(reminder, "createdAt") THEN reminder
                   ELSE Put(reminder, "createdAt", now)
    IN IF insert = "fails"
       THEN [threw |-> TRUE, collection |-> coll, timers |-> ts]
       ELSE [threw |-> FALSE,
             collection |-> IF \E rec \in coll : rec.id = stamped.id
                            THEN coll
                            ELSE coll \cup {stamped},
             timers |-> scheduleReminder(ts, stamped, now)]

\* A loop without the try/catch: the first record that raises ends it.
RECURSIVE ScheduleAllAborting(_, _, _, _)
ScheduleAllAborting(ts, recs, now, raising) ==
    IF recs = {} THEN ts
    ELSE LET r == CHOOSE x \in recs : TRUE
         IN IF r.id \in raising THEN ts
            ELSE ScheduleAllAborting(scheduleReminder(ts, r, now), recs \ {r}, now, raising)

\* startScheduling's loop: scheduleReminder for every loaded record, each in
\* its own try/catch; `raising` holds the ids for which the call raises.
RECURSIVE ScheduleAll(_, _, _, _)
ScheduleAll(ts, recs, now, raising) ==
    IF recs = {} THEN ts
    ELSE LET r == CHOOSE x \in recs : TRUE
         IN ScheduleAll(IF r.id \in raising THEN ts ELSE scheduleReminder(ts, r, now),
                        recs \ {r}, now, raising)

\* ------------------------------------------- the message handler, whole

Timers == [armed |-> armed, scheduledJobs |-> scheduledJobs]

NewSession == [state |-> "WAIT_IMAGE", draft |-> Empty]

SessionOf(c) == IF Has(sessions, c) THEN sessions[c] ELSE NewSession

\* The draft holds the three facts (the test the handler makes before it commits).
Complete(draft) ==
    ~Falsy(draft, "produto") /\ ~Falsy(draft, "validade") /\ Has(draft, "diasAntes")

\* The handler returns: the session of c afterwards (Empty when it was deleted),
\* the collection and the timers afterwards, the branch taken, the reminder it
\* built and the collaborators it invoked.
Outcome(session, coll, ts, op, rem, calls) ==
    [session |-> session, collection |-> coll, timers |-> ts, op |-> op,
     rem |-> rem, calls |-> calls]

Deleted == Empty

\* The image branch that stores the date it read and leaves the state as it was.
HandleMediaStale(session, image) ==
    IF Falsy(session.draft, "validade") /\ image.kind = "ok"
    THEN Outcome([session EXCEPT !.draft = Put(session.draft, "validade", image.validade)],
                 collection, Timers, "image", Empty, {"send", "download", "image"})
    ELSE Outcome(session, collection, Timers, "image_ignored", Empty, {"send"})

\* The image branch (message.hasMedia), for a session that already existed.
HandleMedia(session, image) ==
    IF Falsy(session.draft, "validade")
    THEN CASE image.kind = "downloadThrows" ->
                Outcome(session, collection, Timers, "image_error", Empty,
                        {"send", "download"})
           [] image.kind = "noData" ->
                Outcome(session, collection, Timers, "image_unreadable", Empty,
                        {"send", "download"})
           [] image.kind = "null" ->
                Outcome(Recompute(session), collection, Timers, "image_no_date", Empty,
                        {"send", "download", "image"})
           [] image.kind = "ok" ->
                Outcome(Recompute([session EXCEPT
                                     !.draft = Put(session.draft, "validade",
                                                   image.validade)]),
                        collection, Timers, "image", Empty,
                        {"send", "download", "image"})
    ELSE Outcome(Recompute(session), collection, Timers, "image_ignored", Empty,
                 {"send"})

\* A handler that gives the conversation up once the text branch is left.
HandleRestDropping(session, created, hasMedia, image, calls) ==
    Outcome(Deleted, collection, Timers, "fallback", Empty, calls)

\* What follows the text branch: the first prompt of a new session, the image,
\* or the fallback prompt.
HandleRest(session, created, hasMedia, image, calls) ==
    IF created
    THEN Outcome(Recompute(session), collection, Timers, "first_prompt", Empty,
                 calls \cup {"send"})
    ELSE IF hasMedia
    THEN LET o == HandleMedia(session, image)
         IN [o EXCEPT !.calls = o.calls \cup calls]
    ELSE Outcome(Recompute(session), collection, Timers, "fallback", Empty,
                 calls \cup {"send"})

\* The affirmative reply in CONFIRM.
HandleSim(c, session, insert) ==
    IF ~Complete(session.draft)
    THEN Outcome(Recompute(session), collection, Timers, "incomplete", Empty, {"send"})
    ELSE LET reminder == [id |-> clock, chatId |-> c,
                          produto |-> session.draft.produto,
                          validade |-> session.draft.validade,
                          diasAntes |-> session.draft.diasAntes,
                          createdAt |-> clock]
             saved == saveReminder(collection, Timers, reminder, clock, insert)
         IN IF saved.threw
            THEN Outcome(Deleted, saved.collection, saved.timers, "commit_failed",
                         reminder, {"save", "send"})
            ELSE Outcome(Deleted, saved.collection,
                         scheduleReminder(saved.timers, reminder, clock),
                         "commit", reminder, {"save", "schedule", "send"})

\* A bare number taken as diasAntes without the range check.
HandleDaysUnchecked(session, text) ==
    Outcome(Recompute([session EXCEPT !.draft = Put(session.draft, "diasAntes", NumLit[text])]),
            collection, Timers, "days", Empty, {"send"})

\* The bare number in WAIT_DAYS.
HandleDays(session, text) ==
    LET n == NumLit[text] IN
    IF n >= 0 /\ n <= MaxDays
    THEN Outcome(Recompute([session EXCEPT !.draft = Put(session.draft, "diasAntes", n)]),
                 collection, Timers, "days", Empty, {"send"})
    ELSE Outcome(session, collection, Timers, "days_invalid", Empty, {"send"})

\* A cancellation that also cancels every registered job.
DiscardClearingTimers(op) ==
    Outcome(Deleted, collection, [armed |-> EmptyBag, scheduledJobs |-> Empty], op, Empty,
            {"send"})

\* sessions.delete(chatId) and the farewell, nothing else.
Discard(op) == Outcome(Deleted, collection, Timers, op, Empty, {"send"})

\* client.on("message", ...) for a message of chat c with body `text`; parsed,
\* image and insert are what the collaborators answer if they are asked.
Handler(c, text, hasMedia, parsed, image, insert) ==
    LET created == ~Has(sessions, c)
        session == SessionOf(c)
    IN
    IF IsCancelar(text)
    THEN Discard("cancel")
    ELSE IF session.state = "CONFIRM" /\ IsNegative(text)
    THEN Discard("deny")
    ELSE IF session.state = "CONFIRM" /\ IsSim(text)
    THEN HandleSim(c, session, insert)
    ELSE IF text # "" /\ session.state = "WAIT_DAYS" /\ NumMatch(text)
    THEN HandleDays(session, text)
    ELSE IF text # "" /\ parsed.kind # "throw"
    THEN Outcome(Recompute(mergeParsedIntoDraft(session, parsed)), collection, Timers,
                 "text", Empty, {"parse", "send"})
    ELSE HandleRest(session, created, hasMedia, image,
                    IF text # "" THEN {"parse"} ELSE {})

\* The branches of the handler, as `last.op` names them.
MessageOps ==
    {"cancel", "deny", "incomplete", "commit", "commit_failed", "days", "days_invalid",
     "text", "first_prompt", "image_error", "image_unreadable", "image_no_date",
     "image", "image_ignored", "fallback"}

\* Which collaborators a message reaches, so that only their answers are drawn.
AsksParser(c, text) ==
    /\ text # ""
    /\ ~IsCancelar(text)
    /\ ~(SessionOf(c).state = "CONFIRM" /\ (IsNegative(text) \/ IsSim(text)))
    /\ ~(SessionOf(c).state = "WAIT_DAYS" /\ NumMatch(text))

AsksInsert(c, text) ==
    /\ ~IsCancelar(text)
    /\ SessionOf(c).state = "CONFIRM"
    /\ IsSim(text)
    /\ Complete(SessionOf(c).draft)

NotAsked == [kind |-> "null", value |-> Empty]
NoImage == [kind |-> "null", validade |-> ""]

ReachesMedia(c, text, parsed) ==
    /\ Has(sessions, c)
    /\ ~IsCancelar(text)
    /\ text = "" \/ (AsksParser(c, text) /\ parsed.kind = "throw")
    /\ ~(SessionOf(c).state = "CONFIRM" /\ (IsNegative(text) \/ IsSim(text)))

AsksImage(c, text, hasMedia, parsed) ==
    hasMedia /\ ReachesMedia(c, text, parsed) /\ Falsy(SessionOf(c).draft, "validade")

\* sessions.delete(chatId) takes the session object out of the Map; a handler
\* suspended with a reference to that object keeps working on it, detached.
Detach(hs, c, deleted) ==
    [i \in DOMAIN hs |-> IF deleted /\ hs[i].chat = c
                          THEN [hs[i] EXCEPT !.detached = TRUE]
                          ELSE hs[i]]

Message(c, text, parsed) ==
    /\ phase = "running"
    /\ parsed \in (IF AsksParser(c, text) THEN requestParsingBot(text) ELSE {NotAsked})
    /\ AsksInsert(c, text) => commits < MaxCommits
    /\ \E hasMedia \in IF ReachesMedia(c, text, parsed) THEN BOOLEAN ELSE {FALSE} :
       \E image \in IF AsksImage(c, text, hasMedia, parsed) THEN ImageOutcomes ELSE {NoImage} :
       \E insert \in IF AsksInsert(c, text) THEN {"ok", "fails"} ELSE {"ok"} :
       \E o \in {Handler(c, text, hasMedia, parsed, image, insert)} :
          /\ sessions' = IF o.session = Deleted THEN Without(sessions, c)
                         ELSE Put(sessions, c, o.session)
          /\ collection' = o.collection
          /\ armed' = o.timers.armed
          /\ scheduledJobs' = o.timers.scheduledJobs
          /\ commits' = IF AsksInsert(c, text) THEN commits + 1 ELSE commits
          /\ skipped' = IF o.op = "commit" /\ Due(o.rem, clock)
                        THEN skipped \cup {Key(o.rem)}
                        ELSE skipped
          /\ last' = [op |-> o.op, chat |-> c, text |-> text,
                      pre |-> IF Has(sessions, c) THEN sessions[c].state ELSE "NONE",
                      parsed |-> parsed.value, rem |-> o.rem, calls |-> o.calls,
                      ids |-> {}]
          /\ pending' = Detach(pending, c, o.session = Deleted)
          /\ UNCHANGED <<clock, phase, sendCount, probe, boot>>

\* The handler on a message that carries a picture (message.hasMedia), with or
\* without a caption; `image` is what downloading and reading that picture
\* gives if the handler gets to it, kept in last.media.
Photo(c, text, parsed, image) ==
    /\ phase = "running"
    /\ parsed \in (IF AsksParser(c, text) THEN requestParsingBot(text) ELSE {NotAsked})
    /\ AsksInsert(c, text) => commits < MaxCommits
    /\ \E insert \in IF AsksInsert(c, text) THEN {"ok", "fails"} ELSE {"ok"} :
       \E o \in {Handler(c, text, TRUE, parsed, image, insert)} :
          /\ sessions' = IF o.session = Deleted THEN Without(sessions, c)
                         ELSE Put(sessions, c, o.session)
          /\ collection' = o.collection
          /\ armed' = o.timers.armed
          /\ scheduledJobs' = o.timers.scheduledJobs
          /\ commits' = IF AsksInsert(c, text) THEN commits + 1 ELSE commits
          /\ skipped' = IF o.op = "commit" /\ Due(o.rem, clock)
                        THEN skipped \cup {Key(o.rem)}
                        ELSE skipped
          /\ last' = [op |-> o.op, chat |-> c, text |-> text,
                      pre |-> IF Has(sessions, c) THEN sessions[c].state ELSE "NONE",
                      parsed |-> parsed.value, rem |-> o.rem, calls |-> o.calls,
                      ids |-> {}, media |-> image]
          /\ pending' = Detach(pending, c, o.session = Deleted)
          /\ UNCHANGED <<clock, phase, sendCount, probe, boot>>

\* ------------------------------------- the handler, with its suspension

\* The extractor is called and goes to the network: a short or trivial body is
\* answered null before any other event can be handled.
Suspends(c, text) == AsksParser(c, text) /\ ~IsShort(text) /\ ~IsTrivial(text)

\* The handler of a text message up to `await requestParsingBot(text)`: the
\* session is looked up, or created and stored, and its state is read; then the
\* handler is suspended. Nothing keeps a later message of the chat from being
\* handled meanwhile.
Begin(c, text) ==
    /\ phase = "running"
    /\ Suspends(c, text)
    /\ Len(pending) < MaxPending
    /\ sessions' = IF Has(sessions, c) THEN sessions ELSE Put(sessions, c, NewSession)
    /\ pending' = Append(pending, [chat |-> c, text |-> text, created |-> ~Has(sessions, c),
                                   detached |-> FALSE])
    /\ last' = [op |-> "await", chat |-> c, text |-> text,
                pre |-> IF Has(sessions, c) THEN sessions[c].state ELSE "NONE",
                parsed |-> Empty, rem |-> Empty, calls |-> {"parse"}, ids |-> {}]
    /\ UNCHANGED <<clock, phase, collection, armed, scheduledJobs, sendCount, commits,
                   skipped, probe, boot>>

\* The handler pending[i] after the extractor answered: the merge, the new
\* state and the prompt, or (the call threw) the first prompt, the image or the
\* fallback; all of it on the session object the handler looked up.
Resume(i, parsed, hasMedia, image) ==
    /\ phase = "running"
    /\ i \in DOMAIN pending
    /\ parsed \in requestParsingBot(pending[i].text)
    /\ LET h == pending[i]
           session == IF h.detached THEN NewSession ELSE sessions[h.chat]
           o == IF parsed.kind # "throw"
                THEN Outcome(Recompute(mergeParsedIntoDraft(session, parsed)), collection,
                             Timers, "text", Empty, {"parse", "send"})
                ELSE HandleRest(session, h.created, hasMedia, image, {"parse"})
       IN /\ sessions' = IF h.detached THEN sessions ELSE Put(sessions, h.chat, o.session)
          /\ last' = [op |-> o.op, chat |-> h.chat, text |-> h.text,
                      pre |-> IF h.detached THEN "NONE" ELSE sessions[h.chat].state,
                      parsed |-> parsed.value, rem |-> Empty, calls |-> o.calls,
                      ids |-> {}]
    /\ pending' = SubSeq(pending, 1, i - 1) \o SubSeq(pending, i + 1, Len(pending))
    /\ UNCHANGED <<clock, phase, collection, armed, scheduledJobs, sendCount, commits,
                   skipped, probe, boot>>

\* The handler of an affirmative reply in CONFIRM up to `await saveReminder`:
\* the draft is complete, the reminder is built with the clock's reading as its
\* id, and the handler is suspended holding it. The session stays in the Map,
\* in CONFIRM, until the handler's `finally`.
BeginSim(c, text) ==
    /\ phase = "running"
    /\ AsksInsert(c, text)
    /\ commits < MaxCommits
    /\ Len(pending) < MaxPending
    /\ commits' = commits + 1
    /\ \E reminder \in {[id |-> clock, chatId |-> c,
                          produto |-> sessions[c].draft.produto,
                          validade |-> sessions[c].draft.validade,
                          diasAntes |-> sessions[c].draft.diasAntes,
                          createdAt |-> clock]} :
          /\ pending' = Append(pending, [chat |-> c, text |-> text, created |-> FALSE,
                                         detached |-> FALSE, rem |-> reminder])
          /\ last' = [op |-> "await", chat |-> c, text |-> text, pre |-> sessions[c].state,
                      parsed |-> Empty, rem |-> reminder, calls |-> {"save"}, ids |-> {}]
    /\ UNCHANGED <<clock, phase, sessions, collection, armed, scheduledJobs, sendCount,
                   skipped, probe, boot>>

\* The rest of that handler: saveReminder settles, scheduleReminder is called
\* again if it did not throw, and `finally` deletes whatever session the chat
\* has by then.
EndSim(i, insert) ==
    /\ phase = "running"
    /\ i \in DOMAIN pending
    /\ Has(pending[i], "rem")
    /\ \E h \in {pending[i]} :
       \E saved \in {saveReminder(collection, Timers, h.rem, clock, insert)} :
       \E ts \in {IF saved.threw THEN saved.timers
                  ELSE scheduleReminder(saved.timers, h.rem, clock)} :
          /\ collection' = saved.collection
          /\ armed' = ts.armed
          /\ scheduledJobs' = ts.scheduledJobs
          /\ sessions' = Without(sessions, h.chat)
          /\ skipped' = IF ~saved.threw /\ Due(h.rem, clock)
                        THEN skipped \cup {Key(h.rem)}
                        ELSE skipped
          /\ pending' = Detach(SubSeq(pending, 1, i - 1)
                                 \o SubSeq(pending, i + 1, Len(pending)),
                               h.chat, TRUE)
          /\ last' = [op |-> IF saved.threw THEN "commit_failed" ELSE "commit",
                      chat |-> h.chat, text |-> h.text,
                      pre |-> IF h.detached THEN "NONE" ELSE sessions[h.chat].state,
                      parsed |-> Empty, rem |-> h.rem,
                      calls |-> IF saved.threw THEN {"save", "send"}
                                ELSE {"save", "schedule", "send"},
                      ids |-> {}]
    /\ UNCHANGED <<clock, phase, sendCount, commits, probe, boot>>

\* ------------------------------------------------------ timers and time

Tick ==
    /\ clock < MaxClock
    /\ clock' = clock + 1
    /\ last' = NoStep("tick")
    /\ UNCHANGED <<phase, sessions, collection, armed, scheduledJobs, sendCount, commits,
                   skipped, pending, probe, boot>>

\* The callback of a due job: send, then (only if the send did not throw) mark
\* sentAt; the update's own failure is swallowed.
Fire(job, sendOk, updateOk) ==
    /\ phase = "running"
    /\ BagIn(job, armed)
    /\ job.at <= clock
    /\ armed' = armed (-) SetToBag({job})
    /\ scheduledJobs' = IF Has(scheduledJobs, job.name) /\ scheduledJobs[job.name] = job
                        THEN Without(scheduledJobs, job.name)
                        ELSE scheduledJobs
    /\ sendCount' = [sendCount EXCEPT ![job.rem.id] = @ + 1]
    /\ collection' = IF sendOk /\ updateOk
                     THEN { IF rec.id = job.rem.id THEN Put(rec, "sentAt", clock) ELSE rec
                            : rec \in collection }
                     ELSE collection
    /\ last' = [NoStep("fire") EXCEPT !.chat = job.rem.chatId, !.rem = Key(job.rem),
                                      !.calls = IF ~sendOk THEN {"notify", "notify_threw"}
                                                ELSE IF updateOk THEN {"notify", "update"}
                                                ELSE {"notify", "update", "update_failed"}]
    /\ UNCHANGED <<clock, phase, sessions, commits, skipped, pending, probe, boot>>

\* The process stops and starts again: everything held in memory is gone.
Restart ==
    /\ phase = "running"
    /\ phase' = "booting"
    /\ sessions' = Empty
    /\ armed' = EmptyBag
    /\ scheduledJobs' = Empty
    /\ pending' = <<>>
    /\ boot' = NotBooted
    /\ last' = NoStep("restart")
    /\ UNCHANGED <<clock, collection, sendCount, commits, skipped, probe>>

\* attachConversationFlow without the _conversationAttached test.
attachConversationFlowUnguarded(b) ==
    [b EXCEPT !.conversationAttached = TRUE, !.handlers = @ + 1]

\* attachConversationFlow: the first call registers the "message" listener and
\* sets _conversationAttached; every later call returns at once.
attachConversationFlow(b) ==
    IF b.conversationAttached THEN b
    ELSE [b EXCEPT !.conversationAttached = TRUE, !.handlers = @ + 1]

\* The first 'ready' event of a process, handled without another event in
\* between: startScheduling (a failure of it is logged), then the conversation
\* flow is attached.
Ready(loadOk, raising) ==
    /\ phase = "booting"
    /\ phase' = "running"
    /\ raising \subseteq { rec.id : rec \in collection }
    /\ ~loadOk => raising = {}
    /\ LET ts == IF loadOk THEN ScheduleAll(Timers, collection, clock, raising) ELSE Timers
       IN /\ armed' = ts.armed
          /\ scheduledJobs' = ts.scheduledJobs
    /\ skipped' = IF loadOk
                  THEN skipped \cup { Key(rec) : rec \in { r \in collection :
                                                             WellFormed(r) /\ Due(r, clock) } }
                  ELSE skipped
    /\ last' = [NoStep("ready") EXCEPT !.calls = IF loadOk THEN {"load", "schedule"}
                                                 ELSE {"load"},
                                       !.ids = raising]
    /\ boot' = attachConversationFlow([boot EXCEPT !.schedulerStarted = TRUE,
                                                   !.starts = @ + 1,
                                                   !.resumed = TRUE,
                                                   !.readies = @ + 1])
    /\ UNCHANGED <<clock, sessions, collection, sendCount, commits, pending, probe>>

\* A 'ready' event, from the start of its handler to the first point where the
\* handler waits or ends. The first event of the process sets schedulerStarted,
\* calls startScheduling and waits for it; an event that finds schedulerStarted
\* set skips the scheduler and goes on to attachConversationFlow at once.
ReadyEvent ==
    /\ boot.readies < MaxReadies
    /\ IF ~boot.schedulerStarted
       THEN /\ boot' = [boot EXCEPT !.schedulerStarted = TRUE, !.starts = @ + 1,
                                    !.resuming = TRUE, !.readies = @ + 1]
            /\ phase' = phase
            /\ last' = [NoStep("ready_first") EXCEPT !.calls = {"startScheduling"}]
       ELSE /\ boot' = attachConversationFlow([boot EXCEPT !.readies = @ + 1])
            /\ phase' = "running"
            /\ last' = [NoStep("ready_again") EXCEPT !.calls = {"attach"}]
    /\ UNCHANGED <<clock, sessions, collection, armed, scheduledJobs, sendCount, commits,
                   skipped, pending, probe>>

\* The handler of the first 'ready' event after `await startScheduling()` has
\* settled, with the stored records armed or with a logged error: it goes on to
\* attachConversationFlow.
ReadyDone(loadOk) ==
    /\ boot.resuming
    /\ phase' = "running"
    /\ LET ts == IF loadOk THEN ScheduleAll(Timers, collection, clock, {}) ELSE Timers
       IN /\ armed' = ts.armed
          /\ scheduledJobs' = ts.scheduledJobs
    /\ skipped' = IF loadOk
                  THEN skipped \cup { Key(rec) : rec \in { r \in collection :
                                                             WellFormed(r) /\ Due(r, clock) } }
                  ELSE skipped
    /\ boot' = attachConversationFlow([boot EXCEPT !.resuming = FALSE, !.resumed = TRUE])
    /\ last' = [NoStep("ready") EXCEPT !.calls = IF loadOk THEN {"load", "schedule", "attach"}
                                                 ELSE {"load", "attach"}]
    /\ UNCHANGED <<clock, sessions, collection, sendCount, commits, pending, probe>>

\* deleteReminderById that leaves the job of the id armed.
deleteReminderByIdKeepingJob(id, deleteOk) ==
    /\ phase = "running"
    /\ (\E rec \in collection : rec.id = id) \/ Has(scheduledJobs, id)
    /\ collection' = IF deleteOk THEN { rec \in collection : rec.id # id } ELSE collection
    /\ UNCHANGED <<armed, scheduledJobs>>
    /\ last' = [NoStep(IF deleteOk THEN "delete" ELSE "delete_failed")
                   EXCEPT !.calls = {"delete"}, !.ids = {id}]
    /\ UNCHANGED <<clock, phase, sessions, sendCount, commits, skipped, pending, probe, boot>>

\* deleteReminderById: the record goes and the registered job is cancelled; if
\* deleteOne raises, the job is not reached. (`ids` records the id asked for,
\* `calls` whether a job was cancelled.)
deleteReminderById(id, deleteOk) ==
    /\ phase = "running"
    /\ (\E rec \in collection : rec.id = id) \/ Has(scheduledJobs, id)
    /\ collection' = IF deleteOk THEN { rec \in collection : rec.id # id } ELSE collection
    /\ LET ts == IF deleteOk /\ Has(scheduledJobs, id)
                 THEN CancelJob(Timers, scheduledJobs[id])
                 ELSE Timers
       IN /\ armed' = ts.armed
          /\ scheduledJobs' = ts.scheduledJobs
    /\ last' = [NoStep(IF deleteOk THEN "delete" ELSE "delete_failed")
                   EXCEPT !.calls = IF deleteOk /\ Has(scheduledJobs, id)
                                    THEN {"delete", "cancel"} ELSE {"delete"},
                          !.ids = {id}]
    /\ UNCHANGED <<clock, phase, sessions, sendCount, commits, skipped, pending, probe, boot>>

\* saveReminder called by any caller of the module, with whatever object it
\* passes. (`pre` records whether the id was already stored.)
Commit(reminder, insert) ==
    /\ phase = "running"
    /\ commits < MaxSaves
    /\ commits' = commits + 1
    /\ \E saved \in {saveReminder(collection, Timers, reminder, clock, insert)} :
          /\ collection' = saved.collection
          /\ armed' = saved.timers.armed
          /\ scheduledJobs' = saved.timers.scheduledJobs
          /\ skipped' = IF ~saved.threw /\ WellFormed(reminder) /\ Due(reminder, clock)
                        THEN skipped \cup {Key(reminder)}
                        ELSE skipped
          /\ last' = [NoStep(IF saved.threw THEN "save_failed" ELSE "save") EXCEPT
                        !.rem = reminder,
                        !.pre = IF \E rec \in collection : rec.id = reminder.id
                                THEN "DUPLICATE" ELSE "NEW",
                        !.calls = IF insert = "fails" THEN {"insert", "insert_error"}
                                  ELSE {"insert", "schedule"}]
    /\ UNCHANGED <<clock, phase, sessions, sendCount, pending, probe, boot>>

\* Every answer the text extractor can give to some message.
ParserAnswers == UNION { requestParsingBot(text) : text \in Texts }

\* The answers of an extractor that finds all three facts in one message or none,
\* for reminders that fall due on the expiry day itself.
OneShotAnswers ==
    { a \in ParserAnswers :
        a.kind = "ok" => /\ DOMAIN a.value = {"produto", "validade", "diasAntes"}
                         /\ a.value.diasAntes = 0 }

\* The bodies of a conversation that confirms or cancels right away.
OneShotTexts == {"Leite vence 10/01/2026", "sim", "nao", "cancelar"}

\* The whole system over time, with conversations that state their three facts
\* in one message.
Next ==
    \/ \E c \in Chats, text \in OneShotTexts, parsed \in OneShotAnswers :
          Message(c, text, parsed)
    \/ Tick
    \/ \E job \in BagToSet(armed), sendOk \in BOOLEAN, updateOk \in BOOLEAN :
          Fire(job, sendOk, updateOk)
    \/ Restart
    \/ \E loadOk \in BOOLEAN : Ready(loadOk, {})
    \/ \E id \in Ids : deleteReminderById(id, TRUE)

Spec == Init /\ [][Next]_vars

\* The dialogue in full (every body, every extractor answer, media), within one
\* instant of the clock.
NextDialogue ==
    \/ \E c \in Chats, text \in Texts, parsed \in ParserAnswers :
          Message(c, text, parsed)
    \/ Restart
    \/ \E loadOk \in BOOLEAN : Ready(loadOk, {})

SpecDialogue == Init /\ [][NextDialogue]_vars

\* The conversation flow with the handler's suspension at the extractor call:
\* the messages that call the extractor begin and resume in two steps, the
\* others run through; the extractor's answers return in any order.
\* The bodies of a conversation whose messages overtake one another.
AsyncTexts == {"cancelar", "0", "Leite vence 10/01/2026"}

NextAsync ==
    \/ \E c \in Chats, text \in AsyncTexts : Begin(c, text)
    \/ \E i \in 1..MaxPending, parsed \in ParserAnswers, hasMedia \in BOOLEAN :
          \E image \in IF hasMedia /\ parsed.kind = "throw" THEN ImageOutcomes ELSE {NoImage} :
             Resume(i, parsed, hasMedia, image)
    \/ \E c \in Chats, text \in AsyncTexts :
          ~Suspends(c, text) /\ Message(c, text, NotAsked)
    \/ Restart
    \/ \E loadOk \in BOOLEAN : Ready(loadOk, {})

SpecAsync == Init /\ [][NextAsync]_vars

\* The reminders a caller of the module passes to saveReminder: well-formed
\* ones, and ones that lack a field.
StoreIds == {0, 1}

FullReminders ==
    { [id |-> i, chatId |-> c, produto |-> "Leite", validade |-> v, diasAntes |-> 0,
       createdAt |-> 0] :
        i \in StoreIds, c \in Chats, v \in Validades }

\* One reminder without createdAt, and the same with one more field missing.
PartialReminders ==
    LET r == [id |-> 1, chatId |-> "c1", produto |-> "Leite", validade |-> "2026-01-10",
              diasAntes |-> 0]
    IN {r} \cup { Without(r, f) : f \in RequiredFields \ {"id"} }

StoreReminders == FullReminders \cup PartialReminders

\* The store and the scheduler of reminders.ts under any caller: saves of any
\* object, resumes in which scheduling a record may raise, deletions, restarts.
NextStore ==
    \/ \E reminder \in StoreReminders, insert \in {"ok", "fails"} : Commit(reminder, insert)
    \/ Tick
    \/ \E job \in BagToSet(armed), sendOk \in BOOLEAN, updateOk \in BOOLEAN :
          WellFormed(job.rem) /\ Fire(job, sendOk, updateOk)
    \/ Restart
    \/ \E loadOk \in BOOLEAN, raising \in SUBSET StoreIds : Ready(loadOk, raising)
    \/ \E id \in StoreIds, deleteOk \in BOOLEAN : deleteReminderById(id, deleteOk)

SpecStore == Init /\ [][NextStore]_vars

\* The dialogue with a message that the language model answers with whatever
\* it read, within one instant of the clock.
IntakeTexts == LooseTexts \cup {"sim"}

IntakeAnswers == UNION { requestParsingBot(text) : text \in IntakeTexts }

NextIntake ==
    \/ \E c \in Chats, text \in IntakeTexts, parsed \in IntakeAnswers :
          Message(c, text, parsed)
    \/ Restart
    \/ \E loadOk \in BOOLEAN : Ready(loadOk, {})

SpecIntake == Init /\ [][NextIntake]_vars

\* Conversations in which every message carries a picture, without a caption
\* or with the three facts in words as its caption.
NextMedia ==
    \/ \E c \in Chats, text \in {"", "Leite vence 10/01/2026"}, parsed \in ParserAnswers, image \in ImageOutcomes :
          Photo(c, text, parsed, image)
    \/ Restart
    \/ \E loadOk \in BOOLEAN : Ready(loadOk, {})

SpecMedia == Init /\ [][NextMedia]_vars

\* The message that brings the three facts of the one draft, before any
\* confirmation of it.
Fill(c, parsed) ==
    /\ commits = 0
    /\ SessionOf(c).state # "CONFIRM"
    /\ Message(c, "Leite vence 10/01/2026", parsed)

\* One conversation that fills one draft, and the affirmative reply to its
\* summary delivered up to MaxCommits times, each handler suspended at the save.
NextConfirm ==
    \/ \E c \in Chats, parsed \in OneShotAnswers : Fill(c, parsed)
    \/ \E c \in Chats : BeginSim(c, "sim")
    \/ \E i \in 1..MaxPending, insert \in {"ok", "fails"} : EndSim(i, insert)
    \/ Tick
    \/ \E job \in BagToSet(armed), sendOk \in BOOLEAN : Fire(job, sendOk, TRUE)
    \/ \E loadOk \in BOOLEAN : Ready(loadOk, {})

SpecConfirm == Init /\ [][NextConfirm]_vars

\* saveReminder for an id that is not stored yet: the one call of
\* scheduleReminder for that id while the process runs.
Arm(reminder, insert) ==
    /\ ~\E rec \in collection : rec.id = reminder.id
    /\ Commit(reminder, insert)

\* The callback of a due job with the update of sentAt reaching the store.
Callback(job) == \E sendOk \in BOOLEAN : Fire(job, sendOk, TRUE)

\* The jobs scheduleReminder can arm for the reminders above.
LiveJobs ==
    { [name |-> r.id, at |-> calcNotifyDate(r.validade, r.diasAntes), rem |-> r] :
         r \in FullReminders }

\* A process that keeps running: reminders are saved under fresh ids, none is
\* deleted, time passes and node-schedule invokes the callback of a job whose
\* time has come.
NextLive ==
    \/ \E reminder \in FullReminders, insert \in {"ok", "fails"} : Arm(reminder, insert)
    \/ Tick
    \/ \E job \in LiveJobs : Callback(job)
    \/ \E loadOk \in BOOLEAN : Ready(loadOk, {})

SpecLive ==
    /\ Init
    /\ [][NextLive]_vars
    /\ WF_vars(Tick)
    /\ \A job \in LiveJobs : WF_vars(Callback(job))

\* A transport that emits 'ready' up to MaxReadies times per process, also while
\* the handler of an earlier event waits for startScheduling; messages (the
\* three facts in words, and the affirmative reply) are handled once a listener
\* is registered.
NextBoot ==
    \/ ReadyEvent
    \/ \E loadOk \in BOOLEAN : ReadyDone(loadOk)
    \/ \E c \in Chats, text \in {"Leite vence 10/01/2026", "sim"}, parsed \in OneShotAnswers :
          Message(c, text, parsed)
    \/ Restart

SpecBoot == Init /\ [][NextBoot]_vars

\* ------------------------------------------------------------ claims

\* A step of the message handler for chat c.
MessageStep(c) == last'.op \in MessageOps /\ last'.chat = c

\* C1: a draft field, once set, keeps its value for as long as the session
\* lives: a later input that carries a value for the same field is ignored for it.
SetOnce ==
    [][\A c \in Chats : \A f \in DraftFields :
          (Has(sessions, c) /\ Has(sessions', c) /\ Has(sessions[c].draft, f))
          => (Has(sessions'[c].draft, f) /\ sessions'[c].draft[f] = sessions[c].draft[f])]_vars

\* C2: the sender is invoked at most once for a reminder id, whatever the
\* restarts and timer replacements.
AtMostOneSend == \A id \in Ids : sendCount[id] <= 1

\* The armed jobs that carry the name id, counted with their multiplicity.
JobsNamed(id) ==
    BagCardinality([j \in {x \in BagToSet(armed) : x.name = id} |-> CopiesIn(j, armed)])

\* C3: at most one timer is armed per reminder id, and it is the one the
\* registry holds under that id; a confirmation whose fireAt lies in the future
\* (two schedule calls) leaves exactly one armed timer for its id, carrying the
\* confirmed reminder.
OneTimerPerId ==
    /\ \A id \in Ids : JobsNamed(id) <= 1
    /\ \A id \in DOMAIN scheduledJobs :
          scheduledJobs[id].name = id /\ BagIn(scheduledJobs[id], armed)
    /\ (last.op = "commit" /\ ~Due(last.rem, clock))
       => /\ JobsNamed(last.rem.id) = 1
          /\ Has(scheduledJobs, last.rem.id)
          /\ scheduledJobs[last.rem.id].rem = last.rem

OneTimerPerIdWitness ==
    /\ last.op = "commit"
    /\ ~Due(last.rem, clock)
    /\ last.calls = {"save", "schedule", "send"}
    /\ JobsNamed(last.rem.id) = 1

\* C4: scheduling a reminder whose fireAt is not after the current time is a
\* no-op. No armed job ever carries a reminder that was handed to
\* scheduleReminder when already due, and no such reminder fires; the
\* confirmation or the resume that made the call completes, touches no timer for
\* it and leaves the stored records in place.
PastDueNoOp ==
    [][/\ \A j \in BagToSet(armed') : Key(j.rem) \notin skipped'
       /\ last'.op = "fire" => last'.rem \notin skipped
       /\ (last'.op = "commit" /\ Due(last'.rem, clock))
          => /\ armed' = armed /\ scheduledJobs' = scheduledJobs
             /\ collection \subseteq collection'
             /\ \E rec \in collection' : rec.id = last'.rem.id
       /\ (last'.op = "ready" /\ "schedule" \in last'.calls)
          => /\ collection' = collection
             /\ phase' = "running"
             /\ \A rec \in collection :
                   Due(rec, clock) => /\ Key(rec) \in skipped'
                                      /\ ~Has(scheduledJobs', rec.id)]_vars

PastDueWitness ==
    /\ last.op = "ready"
    /\ "schedule" \in last.calls
    /\ \E rec \in collection :
          /\ Due(rec, clock)
          /\ Key(rec) \in skipped
          /\ JobsNamed(rec.id) = 0
          /\ sendCount[rec.id] = 0

SessionStates == {"WAIT_IMAGE", "WAIT_DAYS", "WAIT_PRODUCT", "CONFIRM"}

\* Every draft over the three fields, with the lead times 0, 1 and MaxDays.
AllDrafts ==
    { p @@ v @@ d : p \in Optional("produto", {"Leite"}),
                    v \in Optional("validade", Validades),
                    d \in Optional("diasAntes", {0, 1, MaxDays}) }

\* The state the precedence date > lead time > product assigns to a draft.
ExpectedState(draft) ==
    IF ~Has(draft, "validade") THEN "WAIT_IMAGE"
    ELSE IF ~Has(draft, "diasAntes") THEN "WAIT_DAYS"
    ELSE IF ~Has(draft, "produto") THEN "WAIT_PRODUCT"
    ELSE "CONFIRM"

\* C5: getNextPrompt depends only on which draft fields are present, with the
\* precedence date > lead time > product, and a diasAntes of 0 counts as
\* present: for every draft, whatever the session's current state, and for
\* every session the conversations reach.
StateMapping ==
    /\ \A d \in AllDrafts : \A st \in SessionStates :
          getNextPrompt([state |-> st, draft |-> d]).state = ExpectedState(d)
    /\ \A c \in DOMAIN sessions :
          getNextPrompt(sessions[c]).state = ExpectedState(sessions[c].draft)

StateMappingWitness ==
    /\ last.op = "days"
    /\ last.text = "0"
    /\ Has(sessions, last.chat)
    /\ sessions[last.chat].draft.diasAntes = 0
    /\ ~Has(sessions[last.chat].draft, "produto")
    /\ sessions[last.chat].state = "WAIT_PRODUCT"

\* The bodies that answer the confirmation question.
YesNoTexts == {"sim", "não", "nao", "cancel", "cancelar"}

InConfirm(c) == Has(sessions, c) /\ sessions[c].state = "CONFIRM"

\* C6: a session in CONFIRM that receives a message other than an affirmative
\* or a negative stays in the store in state CONFIRM, whatever the extractor
\* answers; the fields the extractor found are in the draft afterwards and the
\* draft loses none.
ConfirmLeftOnlyByAnswer ==
    [][\A c \in Chats :
          (InConfirm(c) /\ MessageStep(c) /\ last'.text \notin YesNoTexts)
          => /\ Has(sessions', c)
             /\ sessions'[c].state = "CONFIRM"
             /\ DOMAIN sessions'[c].draft = DraftFields
             /\ \A f \in DOMAIN last'.parsed \ {"produto"} :
                   sessions'[c].draft[f] = last'.parsed[f]]_vars

ConfirmLeftOnlyByAnswerWitness ==
    /\ last.pre = "CONFIRM"
    /\ last.op = "text"
    /\ last.text \notin YesNoTexts
    /\ DOMAIN last.parsed = {"diasAntes"}
    /\ Has(sessions, last.chat)
    /\ sessions[last.chat].state = "CONFIRM"

\* The record a confirmation of chat c builds from its draft at this instant.
ReminderOf(c) ==
    [id |-> clock, chatId |-> c, produto |-> sessions[c].draft.produto,
     validade |-> sessions[c].draft.validade, diasAntes |-> sessions[c].draft.diasAntes,
     createdAt |-> clock]

\* C7: the happy path, step by step. A new conversation whose first text
\* yields only validade is in WAIT_DAYS; a bare number n in 0..MaxDays in
\* WAIT_DAYS sets diasAntes = n and asks for the product; an extraction with a
\* product in WAIT_PRODUCT leads to CONFIRM; a "sim" in CONFIRM that is saved
\* adds exactly one record, carrying the chat and the draft's three facts, and
\* removes the session.
HappyPath ==
    [][\A c \in Chats : MessageStep(c) =>
          /\ (~Has(sessions, c) /\ last'.op = "text" /\ DOMAIN last'.parsed = {"validade"})
             => /\ Has(sessions', c)
                /\ sessions'[c] = [state |-> "WAIT_DAYS",
                                    draft |-> [validade |-> last'.parsed.validade]]
          /\ (Has(sessions, c) /\ sessions[c].state = "WAIT_DAYS" /\ last'.op = "days")
             => /\ Has(sessions', c)
                /\ sessions'[c].draft = Put(sessions[c].draft, "diasAntes", NumLit[last'.text])
                /\ sessions'[c].state = ExpectedState(sessions'[c].draft)
          /\ (Has(sessions, c) /\ sessions[c].state = "WAIT_PRODUCT" /\ last'.op = "text"
                /\ Has(last'.parsed, "produto"))
             => /\ Has(sessions', c)
                /\ sessions'[c].state = "CONFIRM"
                /\ sessions'[c].draft.produto = CapitalizeTrimmed[last'.parsed.produto]
          /\ (InConfirm(c) /\ last'.op = "commit")
             => /\ ~Has(sessions', c)
                /\ ReminderOf(c) \notin collection
                /\ collection' = collection \cup {ReminderOf(c)}]_vars

\* C8: the handler adds a record or touches a timer only when the session is
\* in CONFIRM, the body is affirmative and the draft holds the three facts, and
\* the record is built from that draft; an affirmative that finds a fact missing
\* changes neither the records nor the timers, keeps the session and sets its
\* state to the first incomplete one (no conversation reaches CONFIRM with a
\* fact missing, so the affirmative branch is also applied to every incomplete
\* draft directly).
NoMalformedCommit ==
    [][\A c \in Chats : MessageStep(c) =>
          LET affirmed == InConfirm(c) /\ last'.text = "sim"
              allThere == DraftFields \subseteq DOMAIN SessionOf(c).draft
          IN /\ collection' # collection
                => affirmed /\ allThere /\ collection' = collection \cup {ReminderOf(c)}
             /\ (armed' # armed \/ scheduledJobs' # scheduledJobs)
                => affirmed /\ allThere
             /\ (affirmed /\ ~allThere)
                => /\ collection' = collection
                   /\ armed' = armed /\ scheduledJobs' = scheduledJobs
                   /\ Has(sessions', c)
                   /\ sessions'[c].draft = sessions[c].draft
                   /\ sessions'[c].state = ExpectedState(sessions[c].draft)
             /\ affirmed
                => \A d \in {x \in AllDrafts : ~(DraftFields \subseteq DOMAIN x)} :
                      LET o == HandleSim(c, [state |-> "CONFIRM", draft |-> d], "ok")
                      IN /\ o.collection = collection
                         /\ o.timers = Timers
                         /\ o.session = [state |-> ExpectedState(d), draft |-> d]]_vars

NoMalformedCommitWitness ==
    /\ last.op = "commit"
    /\ last.pre = "CONFIRM"
    /\ last.text = "sim"
    /\ last.rem \in collection
    /\ last.rem.id = clock
    /\ ~Has(sessions, last.chat)

\* C9: a message whose whole body is "cancelar" removes the session, whatever
\* its state, without asking the extractor, the image reader or the store, and
\* leaves records and timers as they were; the next message of the chat starts
\* from an empty draft, so its session holds only what that message brought.
GlobalCancel ==
    [][\A c \in Chats : MessageStep(c) =>
          /\ last'.text = "cancelar"
             => /\ ~Has(sessions', c)
                /\ collection' = collection
                /\ armed' = armed /\ scheduledJobs' = scheduledJobs
                /\ last'.calls \subseteq {"send"}
          /\ (~Has(sessions, c) /\ Has(sessions', c))
             => /\ DOMAIN sessions'[c].draft = DOMAIN last'.parsed
                /\ sessions'[c].state = ExpectedState(sessions'[c].draft)
                /\ last'.parsed = Empty => sessions'[c] = NewSession]_vars

GlobalCancelWitness ==
    /\ last.op = "cancel"
    /\ last.text = "cancelar"
    /\ last.pre = "WAIT_PRODUCT"
    /\ ~Has(sessions, last.chat)

\* C10: a global "cancelar", or a negative reply in CONFIRM, removes the
\* session and changes neither the stored records nor the armed timers nor the
\* job registry, those of the same chat included.
CancelFrame ==
    [][\A c \in Chats :
          (MessageStep(c) /\ (last'.text = "cancelar"
                               \/ (InConfirm(c) /\ last'.text \in YesNoTexts \ {"sim"})))
          => /\ ~Has(sessions', c)
             /\ collection' = collection
             /\ armed' = armed
             /\ scheduledJobs' = scheduledJobs]_vars

CancelFrameWitness ==
    /\ last.op = "deny"
    /\ last.pre = "CONFIRM"
    /\ ~Has(sessions, last.chat)
    /\ \E rec \in collection : rec.chatId = last.chat
    /\ \E j \in BagToSet(armed) : j.rem.chatId = last.chat /\ j.at > clock

\* A handler of chat c is suspended.
InFlight(c) == \E i \in DOMAIN pending : pending[i].chat = c

\* C11: the messages of a conversation are handled one at a time: while a
\* handler of the chat is suspended, the only handler step of that chat is the
\* resumption of a suspended one; a later message neither begins nor runs.
Serialized ==
    [][\A c \in Chats :
          (InFlight(c) /\ last'.chat = c /\ last'.op \in MessageOps \cup {"await"})
          => Len(pending') < Len(pending)]_vars

\* A step of saveReminder called on its own.
SaveStep == last'.op \in {"save", "save_failed"}

\* C12: saving a reminder whose id is already stored raises nothing unless the
\* insert fails for another reason, and leaves the collection as it was: one
\* record per id, with the contents stored first; saving the same reminder
\* again, once or twice more, changes neither the collection nor the timers.
CommitIdempotent ==
    [][SaveStep =>
         /\ \A a, b \in collection' : a.id = b.id => a = b
         /\ last'.pre = "DUPLICATE" => collection' = collection
         /\ (last'.pre = "DUPLICATE" /\ "insert_error" \notin last'.calls)
            => last'.op = "save"
         /\ last'.op = "save"
            => \E twice \in {saveReminder(collection', Timers', last'.rem, clock', "ok")} :
                  /\ ~twice.threw
                  /\ twice.collection = collection'
                  /\ twice.timers = Timers'
                  /\ saveReminder(twice.collection, twice.timers, last'.rem, clock', "ok")
                        = twice]_vars

CommitIdempotentWitness ==
    /\ last.op = "save"
    /\ last.pre = "DUPLICATE"
    /\ WellFormed(last.rem)
    /\ Cardinality({ rec \in collection : rec.id = last.rem.id }) = 1
    /\ \E rec \in collection : rec.id = last.rem.id /\ rec.validade # last.rem.validade
    /\ JobsNamed(last.rem.id) = 1

\* C13: saveReminder called with a reminder that lacks one of id, chatId,
\* produto, validade, diasAntes fails, stores nothing and arms no timer.
CommitValidated ==
    [][(SaveStep /\ ~WellFormed(last'.rem))
       => /\ last'.op = "save_failed"
          /\ collection' = collection
          /\ armed' = armed
          /\ scheduledJobs' = scheduledJobs]_vars

\* C14: when a timer fires, the sender is called and afterwards the stored
\* record of the reminder id carries sentAt, whether the send succeeded or
\* threw (the write itself failing apart).
FireMarksSent ==
    [][(last'.op = "fire" /\ "update_failed" \notin last'.calls)
       => /\ "notify" \in last'.calls
          /\ \A rec \in collection' : rec.id = last'.rem.id => Has(rec, "sentAt")]_vars

\* C15: a stored record changes only by the fire callback writing sentAt, and
\* only when it has none: sentAt, once written, is neither overwritten nor
\* cleared, and no other step changes a field of a stored record.
SentAtOnce ==
    [][\A rec \in collection, rec2 \in collection' :
          rec2.id = rec.id
          => \/ rec2 = rec
             \/ /\ last'.op = "fire"
                /\ ~Has(rec, "sentAt")
                /\ rec2 = Put(rec, "sentAt", clock)]_vars

\* C16: startScheduling calls scheduleReminder for every stored record; when
\* the call raises for some records (last'.ids), startScheduling still
\* completes and every other record that has a fire date still to come is
\* armed, with its own data; the collection is not touched.
ResumeIsolated ==
    [][(last'.op = "ready" /\ "schedule" \in last'.calls)
       => /\ phase' = "running"
          /\ collection' = collection
          /\ \A rec \in collection :
                (rec.id \notin last'.ids /\ ValidDate(rec) /\ ~Due(rec, clock))
                => /\ Has(scheduledJobs', rec.id)
                   /\ scheduledJobs'[rec.id].rem = rec
                   /\ BagIn(scheduledJobs'[rec.id], armed')
          /\ \A id \in last'.ids : ~Has(scheduledJobs', id)]_vars

ResumeIsolatedWitness ==
    /\ last.op = "ready"
    /\ last.ids # {}
    /\ \E rec \in collection :
          /\ rec.id \notin last.ids
          /\ Has(scheduledJobs, rec.id)
          /\ scheduledJobs[rec.id].rem = rec
    /\ \E rec \in collection :
          rec.id \in last.ids /\ ValidDate(rec) /\ ~Due(rec, clock) /\ JobsNamed(rec.id) = 0

\* The timers of a bag that are still to fire, each with the reminder data it
\* carries.
FutureJobs(bag) ==
    { [name |-> j.name, at |-> j.at, rem |-> Key(j.rem)] :
        j \in { x \in BagToSet(bag) : x.at > clock } }

\* What a restart followed by startScheduling would arm now.
Rebuilt == ScheduleAll([armed |-> EmptyBag, scheduledJobs |-> Empty], collection, clock, {})

\* The process holds the timers that the stored records alone would give.
Reconstructible == FutureJobs(armed) = FutureJobs(Rebuilt.armed)

\* C17: the timers still to fire are at every instant those that a restart
\* followed by startScheduling would arm from the stored records: a resume
\* that loaded the records brings this about, and no step of a running
\* process undoes it.
TimersFromStorage ==
    [][/\ (last'.op = "ready" /\ "schedule" \in last'.calls) => Reconstructible'
       /\ (phase = "running" /\ phase' = "running" /\ Reconstructible)
          => Reconstructible']_vars

\* The armed timers that are not named id.
OtherJobs(bag, id) == { j \in BagToSet(bag) : j.name # id }

\* C18: deleteReminderById(id), once completed, leaves no record and no timer
\* of the id and changes nothing of the other ids; afterwards a timer of the id
\* can only come from a new save of a reminder with that id: a resume arms
\* only what is stored.
DeleteRemoves ==
    [][/\ last'.op = "delete"
          => \A id \in last'.ids :
                /\ collection' = { rec \in collection : rec.id # id }
                /\ JobsNamed(id)' = 0
                /\ ~Has(scheduledJobs', id)
                /\ OtherJobs(armed', id) = OtherJobs(armed, id)
                /\ \A j \in OtherJobs(armed, id) : CopiesIn(j, armed') = CopiesIn(j, armed)
                /\ scheduledJobs' = Without(scheduledJobs, id)
       /\ last'.op = "ready"
          => \A j \in BagToSet(armed') :
                \E rec \in collection' : rec.id = j.name /\ j.rem = rec
       /\ \A id \in StoreIds :
             JobsNamed(id)' > JobsNamed(id)
             => \/ last'.op = "save" /\ last'.rem.id = id
                \/ last'.op = "ready"]_vars

DeleteRemovesWitness ==
    /\ last.op = "delete"
    /\ "cancel" \in last.calls
    /\ \A id \in last.ids :
          /\ JobsNamed(id) = 0
          /\ ~\E rec \in collection : rec.id = id
          /\ \E rec \in collection : rec.id # id /\ JobsNamed(rec.id) = 1

\* ------------------------------------------------ dates on the calendar

\* Strings of the form YYYY-MM-DD and the year, month and day that the Date
\* constructor reads from `${validade}T09:00:00`.
IsoDates ==
    ("2026-01-10" :> <<2026, 1, 10>>) @@ ("2026-01-01" :> <<2026, 1, 1>>) @@
    ("2026-03-01" :> <<2026, 3, 1>>) @@ ("2024-03-01" :> <<2024, 3, 1>>) @@
    ("2024-02-29" :> <<2024, 2, 29>>) @@ ("2025-12-31" :> <<2025, 12, 31>>) @@
    ("2026-07-31" :> <<2026, 7, 31>>) @@ ("2100-03-01" :> <<2100, 3, 1>>) @@
    ("2001-01-01" :> <<2001, 1, 1>>)

\* Lead times probed, the ends of the accepted range included.
ProbeDias == {0, 1, 2, 9, 10, 28, 29, 30, 31, 59, 60, 365, 366, 730, 1461, 3650}

\* A Date, in local time: the number of its day and its hour.
\* new Date(`${validade}T09:00:00`): a date-time without offset is local time.
parseValidadeAtNineLocal(validade) ==
    LET ymd == IsoDates[validade]
    IN [day |-> MakeDay(ymd[1], ymd[2], ymd[3]), hour |-> 9]

\* Date.prototype.getDate and setDate: the day of the month in local time; the
\* time within the day is kept.
getDate(t) == DateFromTime(t.day)
setDate(t, dt) ==
    [day |-> MakeDay(YearFromTime(t.day), MonthFromTime(t.day), dt), hour |-> t.hour]

\* calcNotifyDate that stops at the first day of the month.
calcNotifyDateClamped(validade, diasAntes) ==
    LET validadeDate == parseValidadeAtNineLocal(validade)
        dt == getDate(validadeDate) - diasAntes
    IN setDate(validadeDate, IF dt < 1 THEN 1 ELSE dt)

\* calcNotifyDate on the calendar: setDate(getDate() - diasAntes).
calcNotifyDateLocal(validade, diasAntes) ==
    LET validadeDate == parseValidadeAtNineLocal(validade)
    IN setDate(validadeDate, getDate(validadeDate) - diasAntes)

\* One computation of a fire time.
Compute(validade, diasAntes) ==
    /\ probe' = [validade |-> validade, diasAntes |-> diasAntes,
                 notifyDate |-> calcNotifyDateLocal(validade, diasAntes)]
    /\ last' = NoStep("notify_date")
    /\ UNCHANGED <<clock, phase, sessions, collection, armed, scheduledJobs, sendCount,
                   commits, skipped, pending, boot>>

NextDates == \E validade \in DOMAIN IsoDates, diasAntes \in ProbeDias : Compute(validade, diasAntes)

SpecDates == Init /\ [][NextDates]_vars

\* The Gregorian calendar, walked backwards: the length of a month and the
\* date n days before a date.
CalendarMonthLength(y, m) ==
    IF m \in {4, 6, 9, 11} THEN 30
    ELSE IF m # 2 THEN 31
    ELSE IF y % 400 = 0 THEN 29
    ELSE IF y % 100 = 0 THEN 28
    ELSE IF y % 4 = 0 THEN 29 ELSE 28

RECURSIVE DaysBefore(_, _)
DaysBefore(date, n) ==
    IF n < date[3] THEN <<date[1], date[2], date[3] - n>>
    ELSE LET py == IF date[2] = 1 THEN date[1] - 1 ELSE date[1]
             pm == IF date[2] = 1 THEN 12 ELSE date[2] - 1
         IN DaysBefore(<<py, pm, CalendarMonthLength(py, pm)>>, n - date[3])

\* The calendar date of a Date of the model.
CivilDate(t) == <<YearFromTime(t.day), MonthFromTime(t.day), DateFromTime(t.day)>>

\* C19: the fire time computed for a validade and a lead time is 09:00 local
\* time on the calendar day that lies exactly diasAntes days before the
\* validade, across the ends of months and years, leap days included; a lead
\* time of 0 gives 09:00 on the day of the validade.
FireTimeComputed ==
    probe # Empty
    => /\ probe.notifyDate.hour = 9
       /\ CivilDate(probe.notifyDate) = DaysBefore(IsoDates[probe.validade], probe.diasAntes)
       /\ probe.diasAntes = 0 => CivilDate(probe.notifyDate) = IsoDates[probe.validade]

FireTimeComputedWitness ==
    /\ probe # Empty
    /\ probe.validade = "2024-03-01"
    /\ probe.diasAntes = 366
    /\ probe.notifyDate.hour = 9
    /\ CivilDate(probe.notifyDate) = <<2023, 3, 1>>

\* The integer literals that occur in each body.
LiteralsIn(text) ==
    IF text \in DOMAIN NumLit THEN {NumLit[text]}
    ELSE IF text = "Leite vence 10/01/2026" THEN {10, 1, 2026}
    ELSE {}

\* A message of chat c that arrives in WAIT_DAYS and is not the global cancel.
InWaitDays(c) ==
    /\ MessageStep(c)
    /\ Has(sessions, c)
    /\ sessions[c].state = "WAIT_DAYS"
    /\ last'.op # "cancel"

\* C20 as stated: in WAIT_DAYS a message in which an integer literal of
\* 0..3650 occurs sets diasAntes to it without the extractor being called.
AnyLiteralDirect ==
    [][\A c \in Chats :
          (InWaitDays(c) /\ LiteralsIn(last'.text) \cap (0..MaxDays) # {})
          => /\ "parse" \notin last'.calls
             /\ Has(sessions', c)
             /\ Has(sessions'[c].draft, "diasAntes")
             /\ sessions'[c].draft.diasAntes \in LiteralsIn(last'.text)]_vars

\* C20: in WAIT_DAYS a message whose whole body is an integer literal of
\* 0..3650 sets diasAntes to that number without the extractor being called,
\* leaves the other facts alone, and the state is recomputed from the draft:
\* WAIT_PRODUCT, or CONFIRM when the product is known. A body with other text
\* around a number goes to the extractor.
BareNumberDirect ==
    [][\A c \in Chats :
       /\ (InWaitDays(c) /\ last'.text # "" /\ last'.text \notin DOMAIN NumLit)
          => "parse" \in last'.calls
       /\ (InWaitDays(c) /\ last'.text \in DOMAIN NumLit
                         /\ NumLit[last'.text] \in 0..MaxDays)
          => /\ "parse" \notin last'.calls
             /\ Has(sessions', c)
             /\ sessions'[c].draft = Put(sessions[c].draft, "diasAntes", NumLit[last'.text])
             /\ sessions'[c].state = ExpectedState(sessions'[c].draft)
             /\ sessions'[c].state
                  = IF Falsy(sessions[c].draft, "produto") THEN "WAIT_PRODUCT" ELSE "CONFIRM"]_vars

BareNumberDirectWitness ==
    /\ last.op = "days"
    /\ last.pre = "WAIT_DAYS"
    /\ last.text = "0"
    /\ "parse" \notin last.calls
    /\ Has(sessions, last.chat)
    /\ sessions[last.chat].state = "CONFIRM"
    /\ sessions[last.chat].draft.diasAntes = 0

\* The text extractor was called and gave nothing: null or a rejection.
TextGaveNothing == "parse" \in last'.calls /\ last'.parsed = Empty

\* The image was downloaded or read without a date coming out of it.
ImageGaveNothing == last'.op \in {"image_error", "image_unreadable", "image_no_date"}

\* C21: a message for which the text extractor or the image extractor raises
\* or gives nothing leaves the session in the store with the draft it had (an
\* empty one if the session is new), its state the one computed from the
\* draft, and a prompt is sent.
ExtractionFailureAbsorbed ==
    [][\A c \in Chats :
          (MessageStep(c) /\ ((TextGaveNothing /\ last'.op # "image") \/ ImageGaveNothing))
          => /\ Has(sessions', c)
             /\ sessions'[c].draft = (IF Has(sessions, c) THEN sessions[c].draft ELSE Empty)
             /\ sessions'[c].state = ExpectedState(sessions'[c].draft)
             /\ "send" \in last'.calls]_vars

ExtractionFailureAbsorbedWitness ==
    /\ last.op = "image_no_date"
    /\ {"parse", "download", "image", "send"} \subseteq last.calls
    /\ Has(sessions, last.chat)
    /\ sessions[last.chat].draft = [produto |-> "Leite", diasAntes |-> 0]
    /\ sessions[last.chat].state = "WAIT_IMAGE"

\* C22: when the insert fails for a reason other than a duplicate id, nothing
\* is stored and no timer is armed, the user is sent the error message, and
\* the confirmation can be tried again: the session is still in CONFIRM with
\* its draft.
CommitFailureRetryable ==
    [][\A c \in Chats :
          (MessageStep(c) /\ last'.op = "commit_failed")
          => /\ collection' = collection
             /\ armed' = armed
             /\ scheduledJobs' = scheduledJobs
             /\ "send" \in last'.calls
             /\ Has(sessions', c)
             /\ sessions'[c] = sessions[c]]_vars

\* C23: the first message of a chat creates its session, and a message
\* removes the session of its chat only as the global cancel, as a negative
\* reply in CONFIRM or as a commit that succeeded; after every other message,
\* a failed commit included, the session is in the store.
SessionLifecycle ==
    [][\A c \in Chats :
          MessageStep(c)
          => \/ Has(sessions', c)
             \/ last'.op \in {"cancel", "deny", "commit"}]_vars

\* The order in which the facts are asked for.
StateRank == ("WAIT_IMAGE" :> 0) @@ ("WAIT_DAYS" :> 1) @@ ("WAIT_PRODUCT" :> 2) @@ ("CONFIRM" :> 3)

\* C24: within a session the state never moves backwards in the order
\* WAIT_IMAGE, WAIT_DAYS, WAIT_PRODUCT, CONFIRM; once validade is set it stays
\* set and the state is never WAIT_IMAGE again, whatever the later messages
\* and extraction results.
NeverBackwards ==
    [][\A c \in Chats :
          (MessageStep(c) /\ Has(sessions, c) /\ Has(sessions', c))
          => /\ StateRank[sessions'[c].state] >= StateRank[sessions[c].state]
             /\ ~Falsy(sessions[c].draft, "validade")
                => /\ ~Falsy(sessions'[c].draft, "validade")
                   /\ sessions'[c].state # "WAIT_IMAGE"]_vars

NeverBackwardsWitness ==
    /\ last.op = "text"
    /\ last.pre = "WAIT_PRODUCT"
    /\ last.parsed = [diasAntes |-> 1]
    /\ Has(sessions, last.chat)
    /\ sessions[last.chat].state = "WAIT_PRODUCT"
    /\ Has(sessions[last.chat].draft, "validade")

\* ------------------------------------------- the normalizers at work

\* Texts handed to the normalizers: dates in the forms users and labels
\* write them, dates that do not exist, day and month alone, and no date.
ProbeTexts ==
    {"2026-01-10", "2026/01/10", "2026.01.10", "10/01/2026", "10/01/26",
     "10 de janeiro de 2026", "10 jan 2026",
     "2026-12-25", "2026/12/25", "25/12/2026", "25/12/26", "25 de dezembro de 2026",
     "25 dez 2026", "2028-02-29", "29/02/2028",
     "31/02/2026", "2026-02-30", "2026/02/30", "10/13/2026", "29/02/2027", "2026-13-01",
     "31 de abril de 2026",
     "10/01", "05/01", "29/02", "01/03", "15/06", "31/04", "31/12",
     "", "leite", " 10/01/2026 "}

\* The days on which the texts are read (nowInSaoPaulo), as <<year, month, day>>.
ProbeTodays == {<<2026, 1, 5>>, <<2026, 6, 15>>, <<2026, 12, 31>>, <<2027, 3, 1>>, <<2027, 3, 2>>}

\* One text normalized on one day by the normalizer of typed text and by the
\* one of the text read from an image.
Normalize(text, today) ==
    /\ probe' = [text |-> text, today |-> today,
                 normalized |-> normalizeDate(text, today),
                 extracted |-> extractDateFromText(text)]
    /\ last' = NoStep("normalize")
    /\ UNCHANGED <<clock, phase, sessions, collection, armed, scheduledJobs, sendCount,
                   commits, skipped, pending, boot>>

NextNorm == \E text \in ProbeTexts, today \in ProbeTodays : Normalize(text, today)

SpecNorm == Init /\ [][NextNorm]_vars

\* The date each probed text of a supported form stands for.
Denoted ==
    [text \in {"2026-01-10", "2026/01/10", "2026.01.10", "10/01/2026", "10/01/26",
               "10 de janeiro de 2026", "10 jan 2026"} |-> "2026-01-10"] @@
    [text \in {"2026-12-25", "2026/12/25", "25/12/2026", "25/12/26",
               "25 de dezembro de 2026", "25 dez 2026"} |-> "2026-12-25"] @@
    [text \in {"2028-02-29", "29/02/2028"} |-> "2028-02-29"]

\* C25: every supported form of a date (year first with slash, dash or dot, day
\* first with a year of two or four digits, day and spelled month) normalizes to
\* the canonical YYYY-MM-DD of that date, by the normalizer of typed text and by
\* the normalizer of image text alike, the year-first reading taken first.
FormatIndependent ==
    (probe # Empty /\ probe.text \in DOMAIN Denoted)
    => /\ probe.normalized = Denoted[probe.text]
       /\ probe.extracted = Denoted[probe.text]

\* The probed texts in a recognized shape whose day, month and year are no
\* date of the calendar.
Unreal ==
    {"31/02/2026", "2026-02-30", "2026/02/30", "10/13/2026", "29/02/2027", "2026-13-01",
     "31 de abril de 2026"}

\* C26: a text in a recognized shape that names no real calendar date normalizes
\* to null by both normalizers: it is never returned unchanged and no part of it
\* is read as another date.
InvalidToNull ==
    (probe # Empty /\ probe.text \in Unreal)
    => /\ probe.normalized = Null
       /\ probe.extracted = Null

\* The probed texts of a day and a month alone, as <<day, month>>.
DayMonth ==
    ("10/01" :> <<10, 1>>) @@ ("05/01" :> <<5, 1>>) @@ ("29/02" :> <<29, 2>>) @@
    ("01/03" :> <<1, 3>>) @@ ("15/06" :> <<15, 6>>) @@ ("31/04" :> <<31, 4>>) @@
    ("31/12" :> <<31, 12>>)

\* The year a day and month alone are given when read on a day: the year of
\* that day if the month and day are that day or later in the year, the next
\* year if they are before it.
InferredYear(dm, today) ==
    IF dm[2] > today[2] \/ (dm[2] = today[2] /\ dm[1] >= today[3])
    THEN today[1] ELSE today[1] + 1

\* C29: a day and month alone get the year of today when they are today or
\* later, the next year when they are before today; the result is the date of
\* that year, null when the day does not exist in that year.
YearInferred ==
    (probe # Empty /\ probe.text \in DOMAIN DayMonth)
    => LET dm == DayMonth[probe.text]
           year == InferredYear(dm, probe.today)
       IN probe.normalized = IF dm[1] <= CalendarMonthLength(year, dm[2])
                             THEN FormatIso(year, dm[2], dm[1])
                             ELSE Null

\* A string YYYY-MM-DD whose month and day exist on the calendar.
RealDate(s) ==
    LET parts == Split(s, "-")
    IN /\ Len(parts) = 3
       /\ IsDigits(parts[1], 4, 4) /\ IsDigits(parts[2], 2, 2) /\ IsDigits(parts[3], 2, 2)
       /\ Number(parts[2]) \in 1..12
       /\ Number(parts[3]) >= 1
       /\ Number(parts[3]) <= CalendarMonthLength(Number(parts[1]), Number(parts[2]))

\* C27: in every state the validade of every draft and of every stored reminder
\* is absent or a YYYY-MM-DD string that names a real calendar date, whether the
\* text extractor or the image extractor supplied it.
CanonicalDates ==
    /\ \A c \in DOMAIN sessions :
          Has(sessions[c].draft, "validade") => RealDate(sessions[c].draft.validade)
    /\ \A rec \in collection : Has(rec, "validade") => RealDate(rec.validade)

\* C28: in every state the diasAntes of every draft that has one and of every
\* stored reminder is an integer from 0 to 3650, whether a bare number or the
\* text extractor supplied it.
LeadTimesInRange ==
    /\ \A c \in DOMAIN sessions :
          Has(sessions[c].draft, "diasAntes")
          => sessions[c].draft.diasAntes \in 0..MaxDays
    /\ \A rec \in collection : Has(rec, "diasAntes") => rec.diasAntes \in 0..MaxDays

\* C30: whenever no handler of a conversation is in flight, the state its
\* session stores is the state getNextPrompt gives for its draft, after every
\* message on every path.
StateFollowsDraft ==
    \A c \in DOMAIN sessions :
       ~InFlight(c) => sessions[c].state = getNextPrompt(sessions[c]).state

StateFollowsDraftWitness ==
    /\ last.op = "image"
    /\ last.pre = "WAIT_IMAGE"
    /\ Has(sessions, last.chat)
    /\ ~InFlight(last.chat)
    /\ sessions[last.chat].draft =
          [produto |-> "Leite", validade |-> "2026-01-11", diasAntes |-> 1]
    /\ sessions[last.chat].state = "CONFIRM"

\* ---------------------------------------------------------------------------
\* Confirmations, timers and storage
\* ---------------------------------------------------------------------------

\* C32: every successful confirmation adds a record of its own to the
\* collection, carrying the confirmed chatId, produto, validade and diasAntes
\* under the confirmed id, also when another confirmation was saved at the same
\* reading of the clock; the timer registered under that id, if any, carries
\* the confirmed reminder.
DistinctReminders ==
    [][last'.op = "commit" =>
          /\ Cardinality(collection') = Cardinality(collection) + 1
          /\ \E rec \in collection' : Key(rec) = Key(last'.rem)
          /\ Has(scheduledJobs', last'.rem.id)
             => scheduledJobs'[last'.rem.id].rem = last'.rem]_vars

\* C33: after scheduleReminder(r) has returned, every timer armed under r.id
\* fires at r's fire time and carries r's data; when r's fire time is not in
\* the future, no timer is armed under r.id, whatever was armed before.
NoStaleTimer ==
    [][(last'.op = "save" /\ WellFormed(last'.rem))
       => \A j \in BagToSet(armed') :
             j.name = last'.rem.id
             => /\ ~Due(last'.rem, clock')
                /\ j.at = calcNotifyDate(last'.rem.validade, last'.rem.diasAntes)
                /\ Key(j.rem) = Key(last'.rem)]_vars

\* Every armed timer is named after a stored record and carries that record's
\* chatId, produto, validade and diasAntes.
Backed ==
    \A j \in BagToSet(armed) :
       \E rec \in collection : rec.id = j.name /\ WellFormed(rec) /\ Key(rec) = Key(j.rem)

\* C34: after every step (no save or delete being in flight between steps),
\* every armed timer is backed by a stored record with the same id and the
\* same chatId, produto, validade and diasAntes; a confirmation whose insert
\* failed arms no timer.
TimersBackedByStorage ==
    [][/\ Backed'
       /\ last'.op = "commit_failed" => (armed' = armed /\ scheduledJobs' = scheduledJobs)]_vars

\* C36: in WAIT_DAYS a body that is one integer literal below 0 or above 3650
\* is answered with the error prompt only: the session, draft and state, is
\* left as it was, the text extractor is not asked, and nothing is stored or
\* armed.
LeadTimeRejected ==
    [][\A c \in Chats :
          (/\ MessageStep(c)
           /\ Has(sessions, c)
           /\ sessions[c].state = "WAIT_DAYS"
           /\ NumMatch(last'.text)
           /\ (NumLit[last'.text] < 0 \/ NumLit[last'.text] > MaxDays))
          => /\ last'.op = "days_invalid"
             /\ Has(sessions', c)
             /\ sessions'[c] = sessions[c]
             /\ last'.calls = {"send"}
             /\ collection' = collection
             /\ armed' = armed]_vars

LeadTimeRejectedWitness ==
    /\ last.op = "days_invalid"
    /\ last.text = "-1"
    /\ last.pre = "WAIT_DAYS"
    /\ Has(sessions, last.chat)
    /\ sessions[last.chat] = [state |-> "WAIT_DAYS", draft |-> [validade |-> "2026-01-10"]]

\* C35: a message that carries a picture, for a session whose draft has no
\* validade, has the picture downloaded for reading, and a date read from it
\* becomes the draft's validade; also when the message is the first of its
\* conversation and when it has a caption.
ImagesNotDropped ==
    [][\A c \in Chats :
          (/\ MessageStep(c)
           /\ Has(last', "media")
           /\ ~IsCancelar(last'.text)
           /\ Falsy(SessionOf(c).draft, "validade"))
          => /\ "download" \in last'.calls
             /\ last'.media.kind = "ok"
                => /\ "image" \in last'.calls
                   /\ Has(sessions', c)
                   /\ Has(sessions'[c].draft, "validade")
                   /\ sessions'[c].draft.validade = last'.media.validade]_vars

\* C31: one completed draft gives at most one stored reminder and at most one
\* armed timer, however often its affirmative reply is delivered and also when
\* a second handler starts while the first is still waiting for saveReminder.
OneConfirmationOneReminder ==
    /\ Cardinality(collection) <= 1
    /\ BagCardinality(armed) <= 1

\* C37: a timer armed for a reminder id, with a fire time to come within the
\* horizon, in a process that keeps running and neither deletes nor schedules
\* that id again, leads to a state in which the sender was invoked for the id,
\* the stored record carries sentAt, and no timer is armed for the id.
EventualFire ==
    \A id \in StoreIds :
       (\E j \in BagToSet(armed) : j.name = id /\ j.at > clock /\ j.at <= MaxClock)
       ~> (/\ sendCount[id] > 0
           /\ JobsNamed(id) = 0
           /\ \E rec \in collection : rec.id = id /\ Has(rec, "sentAt"))

\* C38: however many 'ready' events a process sees, and so however often
\* attachConversationFlow is called, at most one "message" listener is
\* registered, exactly one once the flow is attached, and exactly one whenever
\* messages are handled, so that a message is handled once.
SingleHandler ==
    /\ boot.handlers <= 1
    /\ boot.conversationAttached <=> boot.handlers = 1
    /\ phase = "running" => boot.handlers = 1
    /\ last.op \in MessageOps => boot.handlers = 1

SingleHandlerWitness ==
    /\ boot.readies = MaxReadies
    /\ ~boot.resuming
    /\ boot.resumed
    /\ boot.handlers = 1
    /\ last.op = "text"

\* C39: startScheduling is invoked at most once per process, whatever the
\* number of 'ready' events and whether the invocation failed or is still in
\* progress; and the message handler is attached only once the startup resume
\* has finished.
SingleResume ==
    /\ boot.starts <= 1
    /\ boot.conversationAttached => boot.resumed

====
